---- MODULE Spec2Model ----
(***************************************************************************)
(* Double-double kernel of Neslib.MultiPrecision (src/C/dd_real.cpp, its   *)
(* C wrappers in src/C/c_dd.cpp and src/C/c_qd.cpp, and the error-free     *)
(* transformations of src/C/inline.h) as a state machine.                  *)
(*                                                                         *)
(* Numbers.  A double is modelled by what the code can observe of it:      *)
(*   nan        the NaN                                                    *)
(*   inf(s)     +infinity / -infinity                                      *)
(*   ex(u,n/d)  the real number (n/d)*u, u one of the irrational units of  *)
(*              the constant table ("1" for plain rationals)               *)
(*   iv[lo,hi]  a finite real known only to lie in [lo,hi]                 *)
(*   op(s)      a finite nonzero real of sign s, magnitude unknown         *)
(*   fin        a finite real, nothing else known                          *)
(*   any        a double about which nothing is known                      *)
(* Arithmetic is exact (no rounding, overflow or underflow), so an         *)
(* expansion carries its value in the leading limb and a zero trailing     *)
(* limb; NaN and infinity are kept limb by limb.  A comparison whose       *)
(* outcome the representation does not determine has no value: the CASE    *)
(* in SgnOf has no arm for it, and TLC stops if a branch ever depends on   *)
(* one.                                                                    *)
(***************************************************************************)
EXTENDS Integers, Sequences, FiniteSets, TLC

(***************************************************************************)
(* Every use of an arithmetic operation or of a kernel function is a call  *)
(* of Call, which selects it by its name; XBody is the definition of X.    *)
(***************************************************************************)
RECURSIVE Call(_, _)
QN(n, d) == Call("QN", <<n, d>>)
RoundDown(q) == Call("RoundDown", <<q>>)
Iv(lo, hi) == Call("Iv", <<lo, hi>>)
EncLo(v) == Call("EncLo", <<v>>)
EncHi(v) == Call("EncHi", <<v>>)
Small(v) == Call("Small", <<v>>)
FAdd(a, b) == Call("FAdd", <<a, b>>)
FMul(a, b) == Call("FMul", <<a, b>>)
FDiv(a, b) == Call("FDiv", <<a, b>>)
qd_sqrt(v) == Call("qd_sqrt", <<v>>)
qd_fabs(v) == Call("qd_fabs", <<v>>)
qd_floor(v) == Call("qd_floor", <<v>>)
qd_ceil(v) == Call("qd_ceil", <<v>>)
qd_log(v) == Call("qd_log", <<v>>)
qd_exp(v) == Call("qd_exp", <<v>>)
qd_ldexp(v, p) == Call("qd_ldexp", <<v, p>>)
dd_add(a, b) == Call("dd_add", <<a, b>>)
dd_sub(a, b) == Call("dd_sub", <<a, b>>)
dd_mul(a, b) == Call("dd_mul", <<a, b>>)
dd_div(a, b) == Call("dd_div", <<a, b>>)
sqrt(X, a) == Call("sqrt", <<X, a>>)
npwr(X, a, n) == Call("npwr", <<X, a, n>>)
pow_int(X, a, n) == Call("pow_int", <<X, a, n>>)
nroot(X, a, n) == Call("nroot", <<X, a, n>>)
exp(X, a) == Call("exp", <<X, a>>)
log(X, a) == Call("log", <<X, a>>)
sin(X, a) == Call("sin", <<X, a>>)
cos(X, a) == Call("cos", <<X, a>>)
sincos(X, a) == Call("sincos", <<X, a>>)
atan(X, a) == Call("atan", <<X, a>>)
atan2(X, y, x) == Call("atan2", <<X, y, x>>)
asin(X, a) == Call("asin", <<X, a>>)
acos(X, a) == Call("acos", <<X, a>>)
sinh(X, a) == Call("sinh", <<X, a>>)
cosh(X, a) == Call("cosh", <<X, a>>)
tanh(X, a) == Call("tanh", <<X, a>>)
acosh(X, a) == Call("acosh", <<X, a>>)
atanh(X, a) == Call("atanh", <<X, a>>)
fmod(X, a, b) == Call("fmod", <<X, a, b>>)
dd_divrem_pair(X, a, b) == Call("divrem", <<X, a, b>>)
qd_divrem_pair(X, a, b) == Call("qd_divrem", <<X, a, b>>)
dd_comp(X, a, b) == Call("comp", <<X, a, b>>)
dd_sincos(X, a) == Call("c_sincos", <<X, a>>)
sin_reduced(X, rd) == Call("sin_reduced", <<X, rd>>)
cos_reduced(X, rd) == Call("cos_reduced", <<X, rd>>)
sincos_reduced(X, rd) == Call("sincos_reduced", <<X, rd>>)
dd_comp_dd_d(X, a, b) == Call("comp_dd_d", <<X, a, b>>)
dd_comp_d_dd(X, a, b) == Call("comp_d_dd", <<X, a, b>>)
Cmp(a, b) == Call("Cmp", <<a, b>>)
FNeg(v) == Call("FNeg", <<v>>)
SgnOpt(v) == Call("SgnOpt", <<v>>)
sin_taylor(X, a) == Call("sin_taylor", <<X, a>>)
Reduce(X, a) == Call("Reduce", <<X, a>>)
cos_taylor(X, a) == Call("cos_taylor", <<X, a>>)
is_zero(a) == Call("is_zero", <<a>>)
QLe(p, q) == Call("QLe", <<p, q>>)
sincos_taylor(X, a) == Call("sincos_taylor", <<X, a>>)

(***************************************************************************)
(* Rationals n/d, d > 0, in lowest terms, as pairs <<n, d>>.               *)
(***************************************************************************)
Abs(i) == IF i < 0 THEN -i ELSE i

RECURSIVE Gcd(_, _)
Gcd(a, b) == IF b = 0 THEN a ELSE Gcd(b, a % b)

QNBody(n, d) ==
  LET g  == Gcd(Abs(n), Abs(d))
      sg == IF d < 0 THEN -1 ELSE 1
  IN  <<(sg * n) \div g, (sg * d) \div g>>

QZero == <<0, 1>>
QOne == <<1, 1>>
QAdd(p, q) == QN(p[1] * q[2] + q[1] * p[2], p[2] * q[2])
QNeg(p) == <<-p[1], p[2]>>
QSub(p, q) == QAdd(p, QNeg(q))
QMul(p, q) == QN(p[1] * q[1], p[2] * q[2])
QInv(p) == QN(p[2], p[1])
\* compared by integer part first, so that no product leaves 32 bits
QLeBody(p, q) ==
  LET ip == p[1] \div p[2]
      iq == q[1] \div q[2]
  IN  IF ip # iq THEN ip < iq
      ELSE (p[1] - ip * p[2]) * q[2] <= (q[1] - iq * q[2]) * p[2]
QLt(p, q) == ~QLe(q, p)
QMin(p, q) == IF QLe(p, q) THEN p ELSE q
QMax(p, q) == IF QLe(p, q) THEN q ELSE p
QSgn(p) == IF p[1] > 0 THEN 1 ELSE IF p[1] < 0 THEN -1 ELSE 0
QFloor(p) == p[1] \div p[2]
QCeil(p) == -((-p[1]) \div p[2])

(***************************************************************************)
(* Doubles.                                                                *)
(***************************************************************************)
Mk(k, u, lo, hi, s) == [k |-> k, u |-> u, lo |-> lo, hi |-> hi, s |-> s]

NaN == Mk("nan", "1", QZero, QZero, 0)
Inf(s) == Mk("inf", "1", QZero, QZero, s)
OpV(s) == Mk("op", "1", QZero, QZero, s)
Fin == Mk("fin", "1", QZero, QZero, 0)
AnyV == Mk("any", "1", QZero, QZero, 0)
ExQ(u, q) == Mk("ex", IF q[1] = 0 THEN "1" ELSE u, q, q, 0)
Ex(u, n, d) == ExQ(u, QNBody(n, d))
D(n) == ExQ("1", <<n, 1>>)
R(n, d) == Ex("1", n, d)

\* Enclosures are kept on a grid of 1/Grid: an endpoint with a larger
\* denominator is rounded outward.
Grid == 1024
RoundDownBody(q) ==
  IF q[2] <= Grid THEN q
  ELSE LET i == q[1] \div q[2]
           r == q[1] - i * q[2]
           f == IF q[2] <= Grid * Grid
                  THEN (r * Grid) \div q[2]
                  ELSE ((r \div 2048) * Grid) \div ((q[2] \div 2048) + 1)
       IN  QN(i * Grid + f, Grid)
RoundUp(q) == QNeg(RoundDown(QNeg(q)))
IvBody(lo, hi) ==
  IF lo = hi THEN ExQ("1", lo)
  ELSE Mk("iv", "1", RoundDown(lo), RoundUp(hi), 0)

IsNaN(v) == v.k = "nan"
IsInf(v) == v.k = "inf"
IsEx(v) == v.k = "ex"

\* Rational enclosure of the unit u: 3 < pi < 22/7, 2 < e < 3,
\* 1/2 < ln 2 < 1, 2 < ln 10 < 3.
UnitLo(u) ==
  CASE u = "1" -> QOne [] u = "pi" -> <<3, 1>> [] u = "e" -> <<2, 1>>
    [] u = "ln2" -> <<1, 2>> [] u = "ln10" -> <<2, 1>>
UnitHi(u) ==
  CASE u = "1" -> QOne [] u = "pi" -> <<22, 7>> [] u = "e" -> <<3, 1>>
    [] u = "ln2" -> QOne [] u = "ln10" -> <<3, 1>>

\* v has a rational enclosure.
Bounded(v) == v.k = "iv" \/ (v.k = "ex" /\ v.u \notin {"max", "smax"})
EncLoBody(v) ==
  IF v.k = "iv" THEN v.lo
  ELSE QMin(QMul(v.lo, UnitLo(v.u)), QMul(v.lo, UnitHi(v.u)))
EncHiBody(v) ==
  IF v.k = "iv" THEN v.hi
  ELSE QMax(QMul(v.hi, UnitLo(v.u)), QMul(v.hi, UnitHi(v.u)))

\* The model computes with v exactly (or with its enclosure) only while the
\* numerators and denominators stay below Cap; beyond it a result keeps its
\* sign only.
Cap == 16384
SmallQ(q) == Abs(q[1]) <= Cap /\ q[2] <= Cap
SmallEx(v) == IsEx(v) /\ SmallQ(v.lo)
GridQ(q) == Abs(q[1]) <= Cap /\ q[2] <= Grid
SmallBody(v) ==
  /\ Bounded(v) /\ GridQ(v.lo) /\ GridQ(v.hi)
  /\ GridQ(EncLo(v)) /\ GridQ(EncHi(v))

\* Sign of a non-NaN double where the representation determines it:
\* -1, 0, 1, and 2 for "not determined".
SgnOptBody(v) ==
  CASE v.k = "inf" -> v.s
    [] v.k = "op" -> v.s
    [] v.k = "ex" -> QSgn(v.lo)
    [] v.k = "iv" -> IF QSgn(v.lo) > 0 THEN 1
                     ELSE IF QSgn(v.hi) < 0 THEN -1 ELSE 2
    [] v.k \in {"fin", "any"} -> 2

\* The sign a branch of the code tests; undefined when not determined.
SgnOf(v) ==
  LET s == SgnOpt(v) IN CASE s = -1 -> -1 [] s = 0 -> 0 [] s = 1 -> 1

FNegBody(v) ==
  CASE v.k \in {"nan", "fin", "any"} -> v
    [] v.k \in {"inf", "op"} -> Mk(v.k, v.u, v.lo, v.hi, -v.s)
    [] v.k = "ex" -> ExQ(v.u, QNeg(v.lo))
    [] v.k = "iv" -> Iv(QNeg(v.hi), QNeg(v.lo))

\* Result of an operation whose operands are finite but not both enclosed:
\* only the sign may be known.
BySign(s) == IF s = 0 THEN D(0) ELSE IF s = 2 THEN Fin ELSE OpV(s)
SumSign(s, t) ==
  IF s = 0 THEN t ELSE IF t = 0 THEN s ELSE IF s = t THEN s ELSE 2
ProdSign(s, t) ==
  IF s = 0 \/ t = 0 THEN 0 ELSE IF s = 2 \/ t = 2 THEN 2 ELSE s * t

FAddBody(a, b) ==
  IF IsNaN(a) \/ IsNaN(b) THEN NaN
  ELSE IF a.k = "any" \/ b.k = "any" THEN AnyV
  ELSE IF IsInf(a) /\ IsInf(b) THEN (IF a.s = b.s THEN a ELSE NaN)
  ELSE IF IsInf(a) THEN a
  ELSE IF IsInf(b) THEN b
  ELSE IF SmallEx(a) /\ SmallEx(b)
          /\ (a.u = b.u \/ a.lo = QZero \/ b.lo = QZero)
    THEN ExQ(IF a.lo = QZero THEN b.u ELSE a.u, QAdd(a.lo, b.lo))
  ELSE IF Small(a) /\ Small(b)
    THEN Iv(QAdd(EncLo(a), EncLo(b)), QAdd(EncHi(a), EncHi(b)))
  ELSE BySign(SumSign(SgnOpt(a), SgnOpt(b)))

FSub(a, b) == FAdd(a, FNeg(b))

FMulBody(a, b) ==
  IF IsNaN(a) \/ IsNaN(b) THEN NaN
  ELSE IF a.k = "any" \/ b.k = "any" THEN AnyV
  ELSE IF IsInf(a) \/ IsInf(b) THEN
    LET s == ProdSign(SgnOpt(a), SgnOpt(b))
    IN  IF s = 0 THEN NaN ELSE IF s = 2 THEN AnyV ELSE Inf(s)
  ELSE IF SmallEx(a) /\ SmallEx(b) /\ (a.u = "1" \/ b.u = "1")
    THEN ExQ(IF a.u = "1" THEN b.u ELSE a.u, QMul(a.lo, b.lo))
  ELSE IF Small(a) /\ Small(b) THEN
    LET p1 == QMul(EncLo(a), EncLo(b))
        p2 == QMul(EncLo(a), EncHi(b))
        p3 == QMul(EncHi(a), EncLo(b))
        p4 == QMul(EncHi(a), EncHi(b))
    IN  Iv(QMin(QMin(RoundDown(p1), RoundDown(p2)),
                QMin(RoundDown(p3), RoundDown(p4))),
           QMax(QMax(RoundUp(p1), RoundUp(p2)),
                QMax(RoundUp(p3), RoundUp(p4))))
  ELSE BySign(ProdSign(SgnOpt(a), SgnOpt(b)))

FDivBody(a, b) ==
  IF IsNaN(a) \/ IsNaN(b) THEN NaN
  ELSE IF a.k = "any" \/ b.k = "any" THEN AnyV
  ELSE IF IsInf(a) /\ IsInf(b) THEN NaN
  ELSE IF IsInf(b) THEN D(0)
  ELSE IF SgnOpt(b) = 2 THEN AnyV
  ELSE IF SgnOpt(b) = 0 THEN
    (IF SgnOpt(a) = 0 THEN NaN
     ELSE IF SgnOpt(a) = 2 THEN AnyV ELSE Inf(SgnOpt(a)))
  ELSE IF IsInf(a) THEN Inf(a.s * SgnOpt(b))
  ELSE IF SmallEx(a) /\ SmallEx(b)
          /\ (a.u = b.u \/ b.u = "1" \/ a.lo = QZero)
    THEN ExQ(IF a.u = b.u THEN "1" ELSE a.u, QMul(a.lo, QInv(b.lo)))
  ELSE IF Small(a) /\ Small(b) THEN
    LET i1 == QInv(EncHi(b))
        i2 == QInv(EncLo(b))
        p1 == QMul(EncLo(a), i1)
        p2 == QMul(EncLo(a), i2)
        p3 == QMul(EncHi(a), i1)
        p4 == QMul(EncHi(a), i2)
    IN  Iv(QMin(QMin(RoundDown(p1), RoundDown(p2)),
                QMin(RoundDown(p3), RoundDown(p4))),
           QMax(QMax(RoundUp(p1), RoundUp(p2)),
                QMax(RoundUp(p3), RoundUp(p4))))
  ELSE BySign(ProdSign(SgnOpt(a), SgnOpt(b)))

\* Three-way comparison of two non-NaN doubles; undefined when not determined.
CmpBody(a, b) ==
  IF IsInf(a) /\ IsInf(b)
    THEN (IF a.s = b.s THEN 0 ELSE a.s)
    ELSE SgnOf(FSub(a, b))

FLt(a, b) == ~IsNaN(a) /\ ~IsNaN(b) /\ Cmp(a, b) = -1
FGt(a, b) == ~IsNaN(a) /\ ~IsNaN(b) /\ Cmp(a, b) = 1
FLe(a, b) == ~IsNaN(a) /\ ~IsNaN(b) /\ Cmp(a, b) <= 0
FGe(a, b) == ~IsNaN(a) /\ ~IsNaN(b) /\ Cmp(a, b) >= 0
FEq(a, b) == ~IsNaN(a) /\ ~IsNaN(b) /\ Cmp(a, b) = 0

(***************************************************************************)
(* The C int type: MinInt .. MaxInt with MinInt = -MaxInt - 1, so that the *)
(* most negative value has no representable absolute value.                *)
(***************************************************************************)
MaxInt == 10
MinInt == -MaxInt - 1
CInt == MinInt..MaxInt

\* What the build makes of the two undefined operations the kernel performs:
\* static_cast<int>(NaN) (INT_MIN on x86, 0 on AArch64) and
\* __builtin_abs(INT_MIN) (INT_MIN when the negation wraps, INT_MAX when it
\* saturates).
Builds == [nanInt : {MinInt, 0}, absMin : {MinInt, MaxInt}]

\* qd_abs on int.
qd_abs(B, n) == IF n = MinInt THEN B.absMin ELSE Abs(n)

\* static_cast<int>(double) of an integral double.
\* Out of range (and infinite) values are undefined as well: the x86
\* conversion gives INT_MIN for all of them, the AArch64 one saturates.
CastInt(B, q) ==
  CASE IsNaN(q) -> B.nanInt
    [] IsEx(q) /\ q.u = "1" /\ q.lo[2] = 1 /\ q.lo[1] \in CInt -> q.lo[1]
    [] IsInf(q) \/ (IsEx(q) /\ q.u = "1" /\ q.lo[2] = 1 /\ q.lo[1] \notin CInt) ->
         IF B.nanInt = MinInt THEN MinInt
         ELSE IF SgnOpt(q) = 1 THEN MaxInt ELSE MinInt

(***************************************************************************)
(* The C library functions the kernel imports.                             *)
(***************************************************************************)
SqCap == 64
HasRoot(n) == n <= SqCap * SqCap /\ \E r \in 0..SqCap : r * r = n
Root(n) == CHOOSE r \in 0..SqCap : r * r = n

\* floor(RootScale * sqrt(q)) for 0 <= q <= RootMax^2
RootMax == 16
RootScale == 32
RootDown(q) ==
  LET t == (q[1] * RootScale * RootScale) \div q[2]
  IN  CHOOSE r \in 0..(RootScale * RootMax) :
        r * r <= t /\ t < (r + 1) * (r + 1)

qd_sqrtBody(v) ==
  IF IsNaN(v) THEN NaN
  ELSE IF v.k = "any" \/ SgnOpt(v) = 2 THEN AnyV
  ELSE IF SgnOpt(v) = -1 THEN NaN
  ELSE IF SgnOpt(v) = 0 \/ IsInf(v) THEN v
  ELSE IF IsEx(v) /\ v.u = "1" /\ HasRoot(v.lo[1]) /\ HasRoot(v.lo[2])
    THEN R(Root(v.lo[1]), Root(v.lo[2]))
  ELSE IF Small(v) /\ QLt(EncHi(v), <<RootMax * RootMax, 1>>)
    THEN Iv(QN(RootDown(EncLo(v)), RootScale),
            QN(RootDown(EncHi(v)) + 1, RootScale))
  ELSE OpV(1)

qd_fabsBody(v) ==
  IF IsNaN(v) THEN NaN
  ELSE IF v.k \in {"fin", "any"} THEN v
  ELSE IF v.k = "iv" /\ SgnOpt(v) = 2
    THEN Iv(QZero, QMax(QNeg(v.lo), v.hi))
  ELSE IF SgnOpt(v) = -1 THEN FNeg(v) ELSE v

qd_floorBody(v) ==
  IF v.k \in {"nan", "inf", "any"} THEN v
  ELSE IF Small(v) /\ QFloor(EncLo(v)) = QFloor(EncHi(v))
    THEN D(QFloor(EncLo(v)))
  ELSE Fin

qd_ceilBody(v) ==
  IF v.k \in {"nan", "inf", "any"} THEN v
  ELSE IF Small(v) /\ QCeil(EncLo(v)) = QCeil(EncHi(v))
    THEN D(QCeil(EncLo(v)))
  ELSE Fin

\* ln x lies between 2(x-1)/(x+1) and (x^2-1)/(2x) for x > 0 (the first is
\* the smaller one for x >= 1, the larger one for x <= 1).
LnA(q) == QN(2 * (q[1] - q[2]), q[1] + q[2])
LnB(q) == QMul(<<1, 2>>, QSub(q, QInv(q)))
qd_logBody(v) ==
  IF IsNaN(v) THEN NaN
  ELSE IF v.k = "any" \/ SgnOpt(v) = 2 THEN AnyV
  ELSE IF SgnOpt(v) = -1 THEN NaN
  ELSE IF SgnOpt(v) = 0 THEN Inf(-1)
  ELSE IF IsInf(v) THEN v
  ELSE IF v = D(1) THEN D(0)
  ELSE IF v = Ex("e", 1, 1) THEN D(1)
  ELSE IF Small(v)
    THEN Iv(QMin(RoundDown(LnA(EncLo(v))), RoundDown(LnB(EncLo(v)))),
            QMax(RoundUp(LnA(EncHi(v))), RoundUp(LnB(EncHi(v)))))
  ELSE Fin

\* e^x lies between (1 + x/4)^4 and 1/(1 - x + x^2/2) for -4 <= x <= 0.
ExpLo(q) ==
  LET h == RoundDown(QMul(QAdd(<<1, 1>>, QMul(q, <<1, 4>>)),
                          QAdd(<<1, 1>>, QMul(q, <<1, 4>>))))
  IN  RoundDown(QMul(h, h))
ExpHi(q) ==
  QN(2 * q[2] * q[2], 2 * q[2] * q[2] - 2 * q[1] * q[2] + q[1] * q[1])
qd_expBody(v) ==
  IF IsNaN(v) THEN NaN
  ELSE IF v.k = "any" THEN AnyV
  ELSE IF IsInf(v) THEN (IF v.s = 1 THEN v ELSE D(0))
  ELSE IF v = D(0) THEN D(1)
  ELSE IF v = D(1) THEN Ex("e", 1, 1)
  ELSE IF v.k \in {"ex", "iv"} /\ Small(v) /\ QLe(<<-4, 1>>, EncLo(v))
          /\ QLe(EncHi(v), <<0, 1>>)
    THEN Iv(ExpLo(EncLo(v)), ExpHi(EncHi(v)))
  ELSE OpV(1)

RECURSIVE Pow2(_)
Pow2(p) == IF p = 0 THEN 1 ELSE 2 * Pow2(p - 1)

qd_ldexpBody(v, p) ==
  IF SmallEx(v) /\ p \in (-MaxInt)..MaxInt
    THEN (IF p >= 0 THEN FMul(v, D(Pow2(p))) ELSE FDiv(v, D(Pow2(-p))))
  ELSE IF v.k \in {"nan", "inf", "any", "fin", "op"} THEN v
  ELSE BySign(SgnOpt(v))

\* static_cast<int>(double) where the double may be unknown to the model:
\* UnkInt stands for "some int".
UnkInt == MinInt - 1
CastOpt(B, q) ==
  IF IsNaN(q) \/ IsInf(q) \/ (IsEx(q) /\ q.u = "1" /\ q.lo[2] = 1)
    THEN CastInt(B, q) ELSE UnkInt

(***************************************************************************)
(* Expansions (dd_real): two limbs x0, x1.  The members and operators of   *)
(* dd_real used by the kernel.                                             *)
(***************************************************************************)
DD(x0, x1) == [x0 |-> x0, x1 |-> x1]
\* dd_real(double)
FromD(d) == DD(d, D(0))
\* the value of an expansion: the sum of its limbs
Val(a) == IF a.x1 = D(0) THEN a.x0 ELSE FAdd(a.x0, a.x1)
\* an arithmetic result of value v, renormalized
MkDD(v) ==
  IF v.k \in {"nan", "inf", "any"} THEN DD(v, v) ELSE DD(v, D(0))

Zero == FromD(D(0))
One == FromD(D(1))
NaNdd == DD(NaN, NaN)
Infdd == DD(Inf(1), Inf(1))

isnan(a) ==
  CASE a.x0.k # "any" /\ a.x1.k # "any" -> IsNaN(a.x0) \/ IsNaN(a.x1)
is_zeroBody(a) == FEq(a.x0, D(0))
is_one(a) == FEq(a.x0, D(1)) /\ FEq(a.x1, D(0))
is_positive(a) == FGt(a.x0, D(0))
is_negative(a) == FLt(a.x0, D(0))
to_double(a) == a.x0

\* The arithmetic operators of dd_real: a NaN leading limb of an operand
\* makes every limb of the result NaN; otherwise the result is the exact
\* value, renormalized.
dd_neg(a) == DD(FNeg(a.x0), FNeg(a.x1))
dd_addBody(a, b) ==
  IF a.x0.k = "nan" \/ b.x0.k = "nan" THEN DD(NaN, NaN)
  ELSE MkDD(FAdd(Val(a), Val(b)))
dd_subBody(a, b) ==
  IF a.x0.k = "nan" \/ b.x0.k = "nan" THEN DD(NaN, NaN)
  ELSE MkDD(FSub(Val(a), Val(b)))
dd_mulBody(a, b) ==
  IF a.x0.k = "nan" \/ b.x0.k = "nan" THEN DD(NaN, NaN)
  ELSE MkDD(FMul(Val(a), Val(b)))
dd_divBody(a, b) ==
  IF a.x0.k = "nan" \/ b.x0.k = "nan" THEN DD(NaN, NaN)
  ELSE MkDD(FDiv(Val(a), Val(b)))
sqr(a) == dd_mul(a, a)
inv(a) == dd_div(One, a)
mul_pwr2(a, d) == DD(FMul(a.x0, d), FMul(a.x1, d))
dd_abs(a) == IF FLt(a.x0, D(0)) THEN dd_neg(a) ELSE a

dd_lt(a, b) == FLt(a.x0, b.x0) \/ (FEq(a.x0, b.x0) /\ FLt(a.x1, b.x1))
dd_gt(a, b) == FGt(a.x0, b.x0) \/ (FEq(a.x0, b.x0) /\ FGt(a.x1, b.x1))
dd_ge(a, b) == FGt(a.x0, b.x0) \/ (FEq(a.x0, b.x0) /\ FGe(a.x1, b.x1))
dd_eq(a, b) == FEq(a.x0, b.x0) /\ FEq(a.x1, b.x1)

\* ldexp(dd_real, int); the exponent arrives as the double it is cast from.
dd_ldexp(B, a, m) ==
  LET p == CastOpt(B, m)
  IN  IF p = UnkInt
        THEN MkDD(IF IsNaN(Val(a)) THEN NaN
                  ELSE IF Val(a).k \in {"any", "inf"} THEN Val(a)
                  ELSE BySign(SgnOpt(Val(a))))
        ELSE DD(qd_ldexp(a.x0, p), qd_ldexp(a.x1, p))

\* qd::nint and qd::aint on a double
nint_d(d) == IF FEq(d, qd_floor(d)) THEN d ELSE qd_floor(FAdd(d, R(1, 2)))
aint_d(d) == IF FGe(d, D(0)) THEN qd_floor(d) ELSE qd_ceil(d)

\* floor, ceil, aint, nint on an expansion: the leading limb is rounded;
\* when it is integral already the trailing limb is rounded and carried.
dd_floor(a) ==
  LET hi == qd_floor(a.x0)
  IN  IF FEq(hi, a.x0) THEN MkDD(FAdd(hi, qd_floor(a.x1))) ELSE DD(hi, D(0))
dd_ceil(a) ==
  LET hi == qd_ceil(a.x0)
  IN  IF FEq(hi, a.x0) THEN MkDD(FAdd(hi, qd_ceil(a.x1))) ELSE DD(hi, D(0))
dd_aint(a) == IF FGe(a.x0, D(0)) THEN dd_floor(a) ELSE dd_ceil(a)
dd_nint(a) ==
  LET hi == nint_d(a.x0)
  IN  IF FEq(hi, a.x0) THEN MkDD(FAdd(hi, nint_d(a.x1)))
      ELSE IF FEq(qd_fabs(FSub(hi, a.x0)), R(1, 2)) /\ FLt(a.x1, D(0))
        THEN DD(FSub(hi, D(1)), D(0))
      ELSE DD(hi, D(0))

(***************************************************************************)
(* Process-wide state: the sentinels qd::_d_nan, qd::_d_inf and the        *)
(* thirteen dd_real constants.  Statics are zero-initialized.              *)
(***************************************************************************)
SentNames == {"_d_nan", "_d_inf"}
ConstNames ==
  {"_2pi", "_pi", "_pi2", "_pi4", "_3pi4", "_e", "_log2", "_log10",
   "_nan", "_inf", "_max", "_safe_max", "_pi16"}

ZeroSent == [n \in SentNames |-> D(0)]
ZeroTbl == [n \in ConstNames |-> Zero]

qd_nan == NaN
qd_inf == Inf(1)

\* A literal pair dd_real(hi, lo) of the table, read as the real number
\* (n/d)*u that hi + lo approximates to the precision of the expansion.
Lit(u, n, d) == DD(Ex(u, n, d), D(0))

\* The assignments of c_dd_init, in program order.
NInitSteps == 15
\* The assignments of c_dd_init with _nan built before _d_nan is set: a first
\* run leaves _nan zero and only a second run repairs it.
InitStep_nan_first(i, S, T) ==
  CASE i = 1 -> <<S, [T EXCEPT !["_nan"] = DD(S["_d_nan"], S["_d_nan"])]>>
    [] i = 2 -> <<[S EXCEPT !["_d_inf"] = qd_inf], T>>
    [] i = 3 -> <<S, [T EXCEPT !["_2pi"] = Lit("pi", 2, 1)]>>
    [] i = 4 -> <<S, [T EXCEPT !["_pi"] = Lit("pi", 1, 1)]>>
    [] i = 5 -> <<S, [T EXCEPT !["_pi2"] = Lit("pi", 1, 2)]>>
    [] i = 6 -> <<S, [T EXCEPT !["_pi4"] = Lit("pi", 1, 4)]>>
    [] i = 7 -> <<S, [T EXCEPT !["_3pi4"] = Lit("pi", 3, 4)]>>
    [] i = 8 -> <<S, [T EXCEPT !["_e"] = Lit("e", 1, 1)]>>
    [] i = 9 -> <<S, [T EXCEPT !["_log2"] = Lit("ln2", 1, 1)]>>
    [] i = 10 -> <<S, [T EXCEPT !["_log10"] = Lit("ln10", 1, 1)]>>
    [] i = 11 -> <<[S EXCEPT !["_d_nan"] = qd_nan], T>>
    [] i = 12 -> <<S, [T EXCEPT !["_inf"] = DD(S["_d_inf"], S["_d_inf"])]>>
    [] i = 13 -> <<S, [T EXCEPT !["_max"] = Lit("max", 1, 1)]>>
    [] i = 14 -> <<S, [T EXCEPT !["_safe_max"] = Lit("smax", 1, 1)]>>
    [] i = 15 -> <<S, [T EXCEPT !["_pi16"] = Lit("pi", 1, 16)]>>

InitStep(i, S, T) ==
  CASE i = 1 -> <<[S EXCEPT !["_d_nan"] = qd_nan], T>>
    [] i = 2 -> <<[S EXCEPT !["_d_inf"] = qd_inf], T>>
    [] i = 3 -> <<S, [T EXCEPT !["_2pi"] = Lit("pi", 2, 1)]>>
    [] i = 4 -> <<S, [T EXCEPT !["_pi"] = Lit("pi", 1, 1)]>>
    [] i = 5 -> <<S, [T EXCEPT !["_pi2"] = Lit("pi", 1, 2)]>>
    [] i = 6 -> <<S, [T EXCEPT !["_pi4"] = Lit("pi", 1, 4)]>>
    [] i = 7 -> <<S, [T EXCEPT !["_3pi4"] = Lit("pi", 3, 4)]>>
    [] i = 8 -> <<S, [T EXCEPT !["_e"] = Lit("e", 1, 1)]>>
    [] i = 9 -> <<S, [T EXCEPT !["_log2"] = Lit("ln2", 1, 1)]>>
    [] i = 10 -> <<S, [T EXCEPT !["_log10"] = Lit("ln10", 1, 1)]>>
    [] i = 11 -> <<S, [T EXCEPT !["_nan"] = DD(S["_d_nan"], S["_d_nan"])]>>
    [] i = 12 -> <<S, [T EXCEPT !["_inf"] = DD(S["_d_inf"], S["_d_inf"])]>>
    [] i = 13 -> <<S, [T EXCEPT !["_max"] = Lit("max", 1, 1)]>>
    [] i = 14 -> <<S, [T EXCEPT !["_safe_max"] = Lit("smax", 1, 1)]>>
    [] i = 15 -> <<S, [T EXCEPT !["_pi16"] = Lit("pi", 1, 16)]>>

RECURSIVE InitFrom(_, _, _)
InitFrom(i, S, T) ==
  IF i > NInitSteps THEN <<S, T>>
  ELSE LET st == InitStep(i, S, T) IN InitFrom(i + 1, st[1], st[2])

\* The state a complete run of c_dd_init leaves.
FullSent == InitFrom(1, ZeroSent, ZeroTbl)[1]
FullTbl == InitFrom(1, ZeroSent, ZeroTbl)[2]

(***************************************************************************)
(* The kernel functions.  X is the context of one call: X.sent and X.tbl   *)
(* the globals it reads, X.b the build, X.w and X.z the outcomes of the    *)
(* native-precision computations the model does not evaluate (the number   *)
(* of Taylor terms above the threshold, the angle qd_atan2 returns).  A    *)
(* function returns [v, h, oob]: its value, the number of calls of         *)
(* dd_real::error it made, and whether it read outside a table.            *)
(***************************************************************************)
RV(v, h) == [v |-> v, h |-> h, oob |-> FALSE]

\* F applied to the value of v: the statements of a function body run in
\* order, each on the values the earlier ones computed.
Then(v, F(_)) == CHOOSE res \in {F(x) : x \in {v}} : TRUE
After(r, v) == [v |-> v, h |-> r.h, oob |-> r.oob]
Plus(r, q) == [v |-> r.v, h |-> r.h + q.h, oob |-> r.oob \/ q.oob]

\* sqrt with the call of dd_real::error left out of the negative-argument
\* branch: a kernel the error contract must tell from the real one.
sqrt_silent(X, a) ==
  IF is_zero(a) THEN RV(Zero, 0)
  ELSE IF is_negative(a) THEN RV(X.tbl["_nan"], 0)
  ELSE
    Then(FDiv(D(1), qd_sqrt(a.x0)), LAMBDA x :
    Then(FMul(a.x0, x), LAMBDA ax :
      RV(MkDD(FAdd(ax, FMul(dd_sub(a, sqr(FromD(ax))).x0,
                            FMul(x, R(1, 2))))), 0)))

sqrtBody(X, a) ==
  IF is_zero(a) THEN RV(Zero, 0)
  ELSE IF is_negative(a) THEN RV(X.tbl["_nan"], 1)
  ELSE
    Then(FDiv(D(1), qd_sqrt(a.x0)), LAMBDA x :
    Then(FMul(a.x0, x), LAMBDA ax :
      RV(MkDD(FAdd(ax, FMul(dd_sub(a, sqr(FromD(ax))).x0,
                            FMul(x, R(1, 2))))), 0)))

RECURSIVE NpwrLoop(_, _, _)
\* the while loop of npwr, entered with N, r, s; returns s
NpwrLoop(N, r, s) ==
  IF N > 0 THEN
    Then(<<IF N % 2 = 1 THEN dd_mul(s, r) ELSE s,
           IF N \div 2 > 0 THEN sqr(r) ELSE r>>,
         LAMBDA sr : NpwrLoop(N \div 2, sr[2], sr[1]))
  ELSE s

\* npwr with the running product s started at a instead of 1.0.
npwr_seeded(X, a, n) ==
  IF n = 0 THEN
    (IF is_zero(a) THEN RV(X.tbl["_nan"], 1) ELSE RV(One, 0))
  ELSE
    Then(qd_abs(X.b, n), LAMBDA N :
    Then(IF N > 1 THEN NpwrLoop(N, a, a) ELSE a, LAMBDA s :
      IF n < 0 THEN RV(dd_div(One, s), 0) ELSE RV(s, 0)))

npwrBody(X, a, n) ==
  IF n = 0 THEN
    (IF is_zero(a) THEN RV(X.tbl["_nan"], 1) ELSE RV(One, 0))
  ELSE
    Then(qd_abs(X.b, n), LAMBDA N :
    Then(IF N > 1 THEN NpwrLoop(N, a, One) ELSE a, LAMBDA s :
      IF n < 0 THEN RV(dd_div(One, s), 0) ELSE RV(s, 0)))

pow_intBody(X, a, n) == npwr(X, a, n)

\* inv_fact[i] = 1/(i+3)!, the table of reciprocal factorials.
n_inv_fact == 15
RECURSIVE Fact(_)
Fact(n) == IF n <= 1 THEN 1 ELSE n * Fact(n - 1)
\* Entries below 1/Grid are kept by their enclosure [0, 1/Grid].
inv_fact(i) ==
  IF i <= 3 THEN DD(R(1, Fact(i + 3)), D(0))
  ELSE DD(Iv(QZero, <<1, Grid>>), D(0))

\* A loop test  qd_fabs(t) > thresh  after cnt executions of the loop body:
\* false for a NaN or zero term; otherwise the term is above the threshold
\* for the first X.w - 1 executions.
Above(X, t, cnt) ==
  IF IsNaN(t) \/ t = D(0) THEN FALSE ELSE cnt < X.w

RECURSIVE ExpLoop(_, _, _, _, _, _)
\* the do-while loop of exp, entered with i, s, p, t; returns s after the
\* final  s += t
ExpLoop(X, r, i, s, p, t) ==
  Then(LET p1 == dd_mul(p, r)
       IN  <<dd_add(s, t), p1, dd_mul(p1, inv_fact(i + 1))>>, LAMBDA spt :
    IF Above(X, to_double(spt[3]), i + 1) /\ i + 1 < 5
      THEN ExpLoop(X, r, i + 1, spt[1], spt[2], spt[3])
      ELSE dd_add(spt[1], spt[3]))

RECURSIVE Unreduce(_, _)
\* s = mul_pwr2(s, 2.0) + sqr(s), cnt times
Unreduce(s, cnt) ==
  IF cnt = 0 THEN s
  ELSE Then(dd_add(mul_pwr2(s, D(2)), sqr(s)),
            LAMBDA v : Unreduce(v, cnt - 1))

\* exp returning the largest finite value _max above the range.
exp_saturating(X, a) ==
  IF FLe(a.x0, D(-709)) THEN RV(Zero, 0)
  ELSE IF FGe(a.x0, D(709)) THEN RV(X.tbl["_max"], 0)
  ELSE IF is_zero(a) THEN RV(One, 0)
  ELSE IF is_one(a) THEN RV(X.tbl["_e"], 0)
  ELSE
    Then(qd_floor(FAdd(FDiv(a.x0, X.tbl["_log2"].x0), R(1, 2))), LAMBDA m :
    Then(mul_pwr2(dd_sub(a, dd_mul(X.tbl["_log2"], FromD(m))), R(1, 512)),
         LAMBDA r :
    Then(LET p0 == sqr(r)
             p  == dd_mul(p0, r)
         IN  <<dd_add(r, mul_pwr2(p0, R(1, 2))), p, dd_mul(p, inv_fact(0))>>,
         LAMBDA spt :
    Then(ExpLoop(X, r, 0, spt[1], spt[2], spt[3]), LAMBDA s :
    Then(Unreduce(s, 9), LAMBDA s9 :
      RV(dd_ldexp(X.b, dd_add(s9, One), m), 0))))))

expBody(X, a) ==
  IF FLe(a.x0, D(-709)) THEN RV(Zero, 0)
  ELSE IF FGe(a.x0, D(709)) THEN RV(X.tbl["_inf"], 0)
  ELSE IF is_zero(a) THEN RV(One, 0)
  ELSE IF is_one(a) THEN RV(X.tbl["_e"], 0)
  ELSE
    Then(qd_floor(FAdd(FDiv(a.x0, X.tbl["_log2"].x0), R(1, 2))), LAMBDA m :
    Then(mul_pwr2(dd_sub(a, dd_mul(X.tbl["_log2"], FromD(m))), R(1, 512)),
         LAMBDA r :
    Then(LET p0 == sqr(r)
             p  == dd_mul(p0, r)
         IN  <<dd_add(r, mul_pwr2(p0, R(1, 2))), p, dd_mul(p, inv_fact(0))>>,
         LAMBDA spt :
    Then(ExpLoop(X, r, 0, spt[1], spt[2], spt[3]), LAMBDA s :
    Then(Unreduce(s, 9), LAMBDA s9 :
      RV(dd_ldexp(X.b, dd_add(s9, One), m), 0))))))

logBody(X, a) ==
  IF is_one(a) THEN RV(Zero, 0)
  ELSE IF FLe(a.x0, D(0)) THEN RV(X.tbl["_nan"], 1)
  ELSE
    Then(FromD(qd_log(a.x0)), LAMBDA x :
    Then(exp(X, dd_neg(x)), LAMBDA e :
      After(e, dd_sub(dd_add(x, dd_mul(a, e.v)), One))))

\* nroot taking the sign of its result from |a|.
nroot_unsigned(X, a, n) ==
  IF n <= 0 THEN RV(X.tbl["_nan"], 1)
  ELSE IF n % 2 = 0 /\ is_negative(a) THEN RV(X.tbl["_nan"], 1)
  ELSE IF n = 1 THEN RV(a, 0)
  ELSE IF n = 2 THEN sqrt(X, a)
  ELSE IF is_zero(a) THEN RV(Zero, 0)
  ELSE
    Then(dd_abs(a), LAMBDA r :
    Then(FromD(qd_exp(FDiv(FNeg(qd_log(r.x0)), D(n)))), LAMBDA x :
    Then(npwr(X, x, n), LAMBDA pw :
    Then(dd_add(x, dd_div(dd_mul(x, dd_sub(One, dd_mul(r, pw.v))),
                          FromD(D(n)))), LAMBDA x1 :
      After(pw, dd_div(One, IF FLt(r.x0, D(0)) THEN dd_neg(x1) ELSE x1))))))

nrootBody(X, a, n) ==
  IF n <= 0 THEN RV(X.tbl["_nan"], 1)
  ELSE IF n % 2 = 0 /\ is_negative(a) THEN RV(X.tbl["_nan"], 1)
  ELSE IF n = 1 THEN RV(a, 0)
  ELSE IF n = 2 THEN sqrt(X, a)
  ELSE IF is_zero(a) THEN RV(Zero, 0)
  ELSE
    Then(dd_abs(a), LAMBDA r :
    Then(FromD(qd_exp(FDiv(FNeg(qd_log(r.x0)), D(n)))), LAMBDA x :
    Then(npwr(X, x, n), LAMBDA pw :
    Then(dd_add(x, dd_div(dd_mul(x, dd_sub(One, dd_mul(r, pw.v))),
                          FromD(D(n)))), LAMBDA x1 :
      After(pw, dd_div(One, IF FLt(a.x0, D(0)) THEN dd_neg(x1) ELSE x1))))))

\* sin(k*pi/16) and cos(k*pi/16), k = 1..4: each literal pair by its
\* enclosure on the grid.  A read at another index is outside the table
\* and yields an arbitrary double.
SinEntry(i) ==
  CASE i = 0 -> Iv(<<199, 1024>>, <<200, 1024>>)
    [] i = 1 -> Iv(<<391, 1024>>, <<392, 1024>>)
    [] i = 2 -> Iv(<<568, 1024>>, <<569, 1024>>)
    [] i = 3 -> Iv(<<724, 1024>>, <<725, 1024>>)
CosEntry(i) ==
  CASE i = 0 -> Iv(<<1004, 1024>>, <<1005, 1024>>)
    [] i = 1 -> Iv(<<946, 1024>>, <<947, 1024>>)
    [] i = 2 -> Iv(<<851, 1024>>, <<852, 1024>>)
    [] i = 3 -> Iv(<<724, 1024>>, <<725, 1024>>)
sin_table(i) == IF i \in 0..3 THEN DD(SinEntry(i), D(0)) ELSE DD(AnyV, AnyV)
cos_table(i) == IF i \in 0..3 THEN DD(CosEntry(i), D(0)) ELSE DD(AnyV, AnyV)

RECURSIVE TaylorLoop(_, _, _, _, _)
\* the do-while loop shared by sin_taylor (i from 0) and cos_taylor (i from 1)
TaylorLoop(X, x, i, r, s) ==
  Then(LET r1 == dd_mul(r, x)
           t  == dd_mul(r1, inv_fact(i))
       IN  <<r1, t, dd_add(s, t)>>, LAMBDA rts :
    IF i + 2 < n_inv_fact /\ Above(X, to_double(rts[2]), (i + 2) \div 2)
      THEN TaylorLoop(X, x, i + 2, rts[1], rts[3])
      ELSE rts[3])

sin_taylorBody(X, a) ==
  IF is_zero(a) THEN Zero
  ELSE Then(dd_neg(sqr(a)), LAMBDA x : TaylorLoop(X, x, 0, a, a))

cos_taylorBody(X, a) ==
  IF is_zero(a) THEN One
  ELSE Then(dd_neg(sqr(a)), LAMBDA x :
         TaylorLoop(X, x, 1, x, dd_add(One, mul_pwr2(x, R(1, 2)))))

\* returns [s, c, h, oob]
SC(s, c, h, oob) == [s |-> s, c |-> c, h |-> h, oob |-> oob]
sincos_taylorBody(X, a) ==
  IF is_zero(a) THEN SC(Zero, One, 0, FALSE)
  ELSE Then(sin_taylor(X, a), LAMBDA sa :
       Then(sqrt(X, dd_sub(One, sqr(sa))), LAMBDA ca :
         SC(sa, ca.v, ca.h, ca.oob)))

\* the reduction with the quotient by 2*pi rounded down, not to nearest
Reduce_floored(X, a) ==
  Then(dd_sub(a, dd_mul(X.tbl["_2pi"], dd_floor(dd_div(a, X.tbl["_2pi"])))),
       LAMBDA r :
  Then(qd_floor(FAdd(FDiv(r.x0, X.tbl["_pi2"].x0), R(1, 2))), LAMBDA q :
  Then(dd_sub(r, dd_mul(X.tbl["_pi2"], FromD(q))), LAMBDA t :
  Then(qd_floor(FAdd(FDiv(t.x0, X.tbl["_pi16"].x0), R(1, 2))), LAMBDA q2 :
    [t |-> dd_sub(t, dd_mul(X.tbl["_pi16"], FromD(q2))),
     j |-> CastInt(X.b, q), k |-> CastInt(X.b, q2),
     abs_k |-> qd_abs(X.b, CastInt(X.b, q2))]))))

\* The argument reduction shared by sin, cos and sincos:
\* a = t + j*(pi/2) + k*(pi/16) modulo 2*pi.
ReduceBody(X, a) ==
  Then(dd_sub(a, dd_mul(X.tbl["_2pi"], dd_nint(dd_div(a, X.tbl["_2pi"])))),
       LAMBDA r :
  Then(qd_floor(FAdd(FDiv(r.x0, X.tbl["_pi2"].x0), R(1, 2))), LAMBDA q :
  Then(dd_sub(r, dd_mul(X.tbl["_pi2"], FromD(q))), LAMBDA t :
  Then(qd_floor(FAdd(FDiv(t.x0, X.tbl["_pi16"].x0), R(1, 2))), LAMBDA q2 :
    [t |-> dd_sub(t, dd_mul(X.tbl["_pi16"], FromD(q2))),
     j |-> CastInt(X.b, q), k |-> CastInt(X.b, q2),
     abs_k |-> qd_abs(X.b, CastInt(X.b, q2))]))))

\* sin without the quarter turns: the j == 0 expressions in every quadrant
SinMix_unturned(j, k, u, v, st, ct) ==
  IF k = 0 THEN st
  ELSE IF k > 0 THEN dd_add(dd_mul(u, st), dd_mul(v, ct))
  ELSE dd_sub(dd_mul(u, st), dd_mul(v, ct))

\* What sin returns for quadrant j and table step k, from the table entries
\* u, v and st = sin t, ct = cos t: the switch on j under k == 0, k > 0 and
\* k < 0.
SinMix(j, k, u, v, st, ct) ==
  CASE k = 0 /\ j = 0 -> st
    [] k = 0 /\ j = 1 -> ct
    [] k = 0 /\ j = -1 -> dd_neg(ct)
    [] k = 0 /\ j \notin {-1, 0, 1} -> dd_neg(st)
    [] j = 0 /\ k > 0 -> dd_add(dd_mul(u, st), dd_mul(v, ct))
    [] j = 0 /\ k < 0 -> dd_sub(dd_mul(u, st), dd_mul(v, ct))
    [] j = 1 /\ k > 0 -> dd_sub(dd_mul(u, ct), dd_mul(v, st))
    [] j = 1 /\ k < 0 -> dd_add(dd_mul(u, ct), dd_mul(v, st))
    [] j = -1 /\ k > 0 -> dd_sub(dd_mul(v, st), dd_mul(u, ct))
    [] j = -1 /\ k < 0 -> dd_sub(dd_mul(dd_neg(u), ct), dd_mul(v, st))
    [] j \notin {-1, 0, 1} /\ k > 0 ->
         dd_sub(dd_mul(dd_neg(u), st), dd_mul(v, ct))
    [] j \notin {-1, 0, 1} /\ k < 0 ->
         dd_sub(dd_mul(v, ct), dd_mul(u, st))

\* The same for cos.
CosMix(j, k, u, v, st, ct) ==
  CASE k = 0 /\ j = 0 -> ct
    [] k = 0 /\ j = 1 -> dd_neg(st)
    [] k = 0 /\ j = -1 -> st
    [] k = 0 /\ j \notin {-1, 0, 1} -> dd_neg(ct)
    [] j = 0 /\ k > 0 -> dd_sub(dd_mul(u, ct), dd_mul(v, st))
    [] j = 0 /\ k < 0 -> dd_add(dd_mul(u, ct), dd_mul(v, st))
    [] j = 1 /\ k > 0 -> dd_sub(dd_mul(dd_neg(u), st), dd_mul(v, ct))
    [] j = 1 /\ k < 0 -> dd_sub(dd_mul(v, ct), dd_mul(u, st))
    [] j = -1 /\ k > 0 -> dd_add(dd_mul(u, st), dd_mul(v, ct))
    [] j = -1 /\ k < 0 -> dd_sub(dd_mul(u, st), dd_mul(v, ct))
    [] j \notin {-1, 0, 1} /\ k > 0 ->
         dd_sub(dd_mul(v, st), dd_mul(u, ct))
    [] j \notin {-1, 0, 1} /\ k < 0 ->
         dd_sub(dd_mul(dd_neg(u), ct), dd_mul(v, st))

\* What sincos stores in sin_a and cos_a: sin and cos of t + k*pi/16 by the
\* sign of k, then the quarter turns by j.
SincosMix(abs_j, j, abs_k, k, u, v, st, ct) ==
  LET r == IF abs_k = 0 THEN <<st, ct>>
           ELSE IF k > 0 THEN
             <<dd_add(dd_mul(u, st), dd_mul(v, ct)),
               dd_sub(dd_mul(u, ct), dd_mul(v, st))>>
           ELSE
             <<dd_sub(dd_mul(u, st), dd_mul(v, ct)),
               dd_add(dd_mul(u, ct), dd_mul(v, st))>>
  IN  IF abs_j = 0 THEN <<r[1], r[2]>>
      ELSE IF j = 1 THEN <<r[2], dd_neg(r[1])>>
      ELSE IF j = -1 THEN <<dd_neg(r[2]), r[1]>>
      ELSE <<dd_neg(r[1]), dd_neg(r[2])>>

\* sin after the reduction rd = [t, j, k, abs_k] of its argument
sin_reducedBody(X, rd) ==
  IF rd.j < -2 \/ rd.j > 2 THEN RV(X.tbl["_nan"], 1)
  ELSE IF rd.abs_k > 4 THEN RV(X.tbl["_nan"], 1)
  ELSE IF rd.k = 0 THEN
    RV(SinMix(rd.j, rd.k, Zero, Zero, sin_taylor(X, rd.t),
              cos_taylor(X, rd.t)), 0)
  ELSE
    Then(<<cos_table(rd.abs_k - 1), sin_table(rd.abs_k - 1)>>,
         LAMBDA uv :
    Then(sincos_taylor(X, rd.t), LAMBDA sc :
      [v |-> SinMix(rd.j, rd.k, uv[1], uv[2], sc.s, sc.c), h |-> sc.h,
       oob |-> sc.oob \/ (rd.abs_k - 1) \notin 0..3]))

sinBody(X, a) ==
  IF is_zero(a) THEN RV(Zero, 0) ELSE sin_reduced(X, Reduce(X, a))

\* cos after the reduction rd of its argument
cos_reducedBody(X, rd) ==
  IF rd.j < -2 \/ rd.j > 2 THEN RV(X.tbl["_nan"], 1)
  ELSE IF rd.abs_k > 4 THEN RV(X.tbl["_nan"], 1)
  ELSE IF rd.k = 0 THEN
    RV(CosMix(rd.j, rd.k, Zero, Zero, sin_taylor(X, rd.t),
              cos_taylor(X, rd.t)), 0)
  ELSE
    Then(sincos_taylor(X, rd.t), LAMBDA sc :
    Then(<<cos_table(rd.abs_k - 1), sin_table(rd.abs_k - 1)>>,
         LAMBDA uv :
      [v |-> CosMix(rd.j, rd.k, uv[1], uv[2], sc.s, sc.c), h |-> sc.h,
       oob |-> sc.oob \/ (rd.abs_k - 1) \notin 0..3]))

cosBody(X, a) ==
  IF is_zero(a) THEN RV(One, 0) ELSE cos_reduced(X, Reduce(X, a))

\* sincos after the reduction rd of its argument
sincos_reducedBody(X, rd) ==
  Then(qd_abs(X.b, rd.j), LAMBDA abs_j :
    IF abs_j > 2 THEN SC(X.tbl["_nan"], X.tbl["_nan"], 1, FALSE)
    ELSE IF rd.abs_k > 4 THEN SC(X.tbl["_nan"], X.tbl["_nan"], 1, FALSE)
    ELSE
      Then(sincos_taylor(X, rd.t), LAMBDA sc :
      Then(SincosMix(abs_j, rd.j, rd.abs_k, rd.k, cos_table(rd.abs_k - 1),
                     sin_table(rd.abs_k - 1), sc.s, sc.c), LAMBDA r :
        SC(r[1], r[2], sc.h,
           sc.oob \/ (rd.abs_k # 0 /\ (rd.abs_k - 1) \notin 0..3)))))

sincosBody(X, a) ==
  IF is_zero(a) THEN SC(Zero, One, 0, FALSE)
  ELSE sincos_reduced(X, Reduce(X, a))

\* The native atan2 on doubles, for nonzero finite y, x of different
\* magnitude: some angle strictly inside the octant of the point (x, y).
\* The octant starts at (Oct/4)*pi, and X.z picks the angle in it among
\* the offsets pi/12, pi/8, pi/6, ...: AngleOff(z)*pi/48.
NAngles == 2
AngleOff(z) == 2 * z + 2
qd_atan2(X, y, x) ==
  IF IsNaN(y) \/ IsNaN(x) THEN NaN
  ELSE IF IsInf(y) /\ IsInf(x) THEN
    Ex("pi", SgnOf(y) * (IF SgnOf(x) = 1 THEN 1 ELSE 3), 4)
  ELSE IF IsInf(y) THEN Ex("pi", SgnOf(y), 2)
  ELSE IF IsInf(x) THEN
    (IF SgnOf(x) = 1 THEN D(0) ELSE Ex("pi", SgnOf(y), 1))
  ELSE
    LET wide == FGt(qd_fabs(x), qd_fabs(y))
        oct  == IF SgnOf(x) = 1 THEN (IF wide THEN 0 ELSE 1)
                ELSE (IF wide THEN 3 ELSE 2)
        ang  == 12 * oct + AngleOff(X.z)
    IN  Ex("pi", SgnOf(y) * ang, 48)

\* atan2 choosing the quadrant of the anti-diagonal by the sign of x.
atan2_mirrored(X, y, x) ==
  IF is_zero(x) THEN
    (IF is_zero(y) THEN RV(X.tbl["_nan"], 1)
     ELSE IF is_positive(y) THEN RV(X.tbl["_pi2"], 0)
     ELSE RV(dd_neg(X.tbl["_pi2"]), 0))
  ELSE IF is_zero(y) THEN
    (IF is_positive(x) THEN RV(Zero, 0) ELSE RV(X.tbl["_pi"], 0))
  ELSE IF dd_eq(x, y) THEN
    (IF is_positive(y) THEN RV(X.tbl["_pi4"], 0)
     ELSE RV(dd_neg(X.tbl["_3pi4"]), 0))
  ELSE IF dd_eq(x, dd_neg(y)) THEN
    (IF is_positive(x) THEN RV(X.tbl["_3pi4"], 0)
     ELSE RV(dd_neg(X.tbl["_pi4"]), 0))
  ELSE
    Then(sqrt(X, dd_add(sqr(x), sqr(y))), LAMBDA r :
    Then(<<dd_div(x, r.v), dd_div(y, r.v)>>, LAMBDA xy :
    Then(FromD(qd_atan2(X, to_double(y), to_double(x))), LAMBDA z :
    Then(sincos(X, z), LAMBDA sc :
      [v |-> IF FGt(qd_fabs(xy[1].x0), qd_fabs(xy[2].x0))
               THEN dd_add(z, dd_div(dd_sub(xy[2], sc.s), sc.c))
               ELSE dd_sub(z, dd_div(dd_sub(xy[1], sc.c), sc.s)),
       h |-> r.h + sc.h, oob |-> r.oob \/ sc.oob]))))

atan2Body(X, y, x) ==
  IF is_zero(x) THEN
    (IF is_zero(y) THEN RV(X.tbl["_nan"], 1)
     ELSE IF is_positive(y) THEN RV(X.tbl["_pi2"], 0)
     ELSE RV(dd_neg(X.tbl["_pi2"]), 0))
  ELSE IF is_zero(y) THEN
    (IF is_positive(x) THEN RV(Zero, 0) ELSE RV(X.tbl["_pi"], 0))
  ELSE IF dd_eq(x, y) THEN
    (IF is_positive(y) THEN RV(X.tbl["_pi4"], 0)
     ELSE RV(dd_neg(X.tbl["_3pi4"]), 0))
  ELSE IF dd_eq(x, dd_neg(y)) THEN
    (IF is_positive(y) THEN RV(X.tbl["_3pi4"], 0)
     ELSE RV(dd_neg(X.tbl["_pi4"]), 0))
  ELSE
    Then(sqrt(X, dd_add(sqr(x), sqr(y))), LAMBDA r :
    Then(<<dd_div(x, r.v), dd_div(y, r.v)>>, LAMBDA xy :
    Then(FromD(qd_atan2(X, to_double(y), to_double(x))), LAMBDA z :
    Then(sincos(X, z), LAMBDA sc :
      [v |-> IF FGt(qd_fabs(xy[1].x0), qd_fabs(xy[2].x0))
               THEN dd_add(z, dd_div(dd_sub(xy[2], sc.s), sc.c))
               ELSE dd_sub(z, dd_div(dd_sub(xy[1], sc.c), sc.s)),
       h |-> r.h + sc.h, oob |-> r.oob \/ sc.oob]))))

atanBody(X, a) == atan2(X, a, One)

\* asin rejecting the end points of its domain.
asin_open(X, a) ==
  LET abs_a == dd_abs(a)
  IN  IF ~dd_lt(abs_a, One) THEN RV(X.tbl["_nan"], 1)
      ELSE IF is_one(abs_a) THEN
        (IF is_positive(a) THEN RV(X.tbl["_pi2"], 0)
         ELSE RV(dd_neg(X.tbl["_pi2"]), 0))
      ELSE
        Then(sqrt(X, dd_sub(One, sqr(a))), LAMBDA c :
          Plus(atan2(X, a, c.v), c))

asinBody(X, a) ==
  LET abs_a == dd_abs(a)
  IN  IF dd_gt(abs_a, One) THEN RV(X.tbl["_nan"], 1)
      ELSE IF is_one(abs_a) THEN
        (IF is_positive(a) THEN RV(X.tbl["_pi2"], 0)
         ELSE RV(dd_neg(X.tbl["_pi2"]), 0))
      ELSE
        Then(sqrt(X, dd_sub(One, sqr(a))), LAMBDA c :
          Plus(atan2(X, a, c.v), c))

acosBody(X, a) ==
  LET abs_a == dd_abs(a)
  IN  IF dd_gt(abs_a, One) THEN RV(X.tbl["_nan"], 1)
      ELSE IF is_one(abs_a) THEN
        (IF is_positive(a) THEN RV(Zero, 0) ELSE RV(X.tbl["_pi"], 0))
      ELSE
        Then(sqrt(X, dd_sub(One, sqr(a))), LAMBDA c :
          Plus(atan2(X, c.v, a), c))

RECURSIVE SinhLoop(_, _, _, _, _, _)
\* abs(a) > 0.05, the test of sinh, on the whole expansion
SinhLarge(a) == dd_gt(dd_abs(a), FromD(R(1, 20)))

TanhLarge_whole(a) == dd_gt(dd_abs(a), FromD(R(1, 20)))

\* qd_fabs(to_double(a)) > 0.05, the test of tanh, on the leading limb
TanhLarge(a) == FGt(qd_fabs(to_double(a)), R(1, 20))

\* qd_fabs(to_double(a)) <= 0.05, the test of sincosh
SincoshSmall(a) == FLe(qd_fabs(to_double(a)), R(1, 20))

\* the do-while loop of sinh: m, t, s after cnt executions of its body
SinhLoop(X, m, t, r, s, cnt) ==
  Then(dd_div(dd_mul(t, r), FromD(D((m + 1) * (m + 2)))), LAMBDA t1 :
  Then(dd_add(s, t1), LAMBDA s1 :
    IF Above(X, dd_abs(t1).x0, cnt + 1)
      THEN SinhLoop(X, m + 2, t1, r, s1, cnt + 1)
      ELSE s1))

sinhBody(X, a) ==
  IF is_zero(a) THEN RV(Zero, 0)
  ELSE IF SinhLarge(a) THEN
    Then(exp(X, a), LAMBDA ea :
      After(ea, mul_pwr2(dd_sub(ea.v, inv(ea.v)), R(1, 2))))
  ELSE RV(SinhLoop(X, 1, a, sqr(a), a, 0), 0)

coshBody(X, a) ==
  IF is_zero(a) THEN RV(One, 0)
  ELSE Then(exp(X, a), LAMBDA ea :
         After(ea, mul_pwr2(dd_add(ea.v, inv(ea.v)), R(1, 2))))

tanhBody(X, a) ==
  IF is_zero(a) THEN RV(Zero, 0)
  ELSE IF TanhLarge(a) THEN
    Then(exp(X, a), LAMBDA ea :
    Then(inv(ea.v), LAMBDA inv_ea :
      After(ea, dd_div(dd_sub(ea.v, inv_ea), dd_add(ea.v, inv_ea)))))
  ELSE
    Then(sinh(X, a), LAMBDA s :
    Then(sqrt(X, dd_add(One, sqr(s.v))), LAMBDA c :
      Plus(After(c, dd_div(s.v, c.v)), s)))

acoshBody(X, a) ==
  IF dd_lt(a, One) THEN RV(X.tbl["_nan"], 1)
  ELSE
    Then(sqrt(X, dd_sub(sqr(a), One)), LAMBDA c :
      Plus(log(X, dd_add(a, c.v)), c))

atanhBody(X, a) ==
  IF dd_ge(dd_abs(a), One) THEN RV(X.tbl["_nan"], 1)
  ELSE
    Then(log(X, dd_div(dd_add(One, a), dd_sub(One, a))), LAMBDA l :
      After(l, mul_pwr2(l.v, R(1, 2))))

\* fmod with the quotient rounded down instead of toward zero.
fmod_floored(X, a, b) ==
  Then(dd_floor(dd_div(a, b)), LAMBDA n : RV(dd_sub(a, dd_mul(b, n)), 0))

fmodBody(X, a, b) ==
  Then(dd_aint(dd_div(a, b)), LAMBDA n : RV(dd_sub(a, dd_mul(b, n)), 0))

\* divrem(a, b, r) of dd_real: returns the quotient n = nint(a / b) and
\* leaves the remainder a - n * b in r.
divrem(a, b) ==
  Then(dd_nint(dd_div(a, b)), LAMBDA n :
    [ret |-> n, r |-> dd_sub(a, dd_mul(n, b))])

\* The struct dd_real_pair.
dd_real_pair(v1, v2) == [v1 |-> v1, v2 |-> v2]

\* c_dd_divrem: c->v2 = divrem(*a, *b, c->v1).
c_dd_divremBody(X, a, b) ==
  Then(divrem(a, b), LAMBDA d : RV(dd_real_pair(d.r, d.ret), 0))

\* qd_real: four limbs.  The value of an expansion, and the expansion of a
\* value, renormalized.
QD(x0, x1, x2, x3) == [x0 |-> x0, x1 |-> x1, x2 |-> x2, x3 |-> x3]
qd_val(a) ==
  IF a.x1 = D(0) /\ a.x2 = D(0) /\ a.x3 = D(0) THEN a.x0
  ELSE FAdd(FAdd(a.x0, a.x1), FAdd(a.x2, a.x3))
MkQD(v) ==
  IF v.k \in {"nan", "inf", "any"} THEN QD(v, v, v, v)
  ELSE QD(v, D(0), D(0), D(0))

\* divrem(a, b, r) of qd_real.
qd_divrem(a, b) ==
  Then(Val(dd_nint(MkDD(FDiv(qd_val(a), qd_val(b))))), LAMBDA n :
    [ret |-> MkQD(n), r |-> MkQD(FSub(qd_val(a), FMul(n, qd_val(b))))])

\* c_qd_divrem: c->v2 = divrem(*a, *b, c->v1).
c_qd_divremBody(X, a, b) ==
  Then(qd_divrem(a, b), LAMBDA d : RV(dd_real_pair(d.r, d.ret), 0))

\* c_dd_comp deciding by the leading limbs alone.
c_dd_comp_leading(X, a, b) ==
  RV(IF FLt(a.x0, b.x0) THEN -1 ELSE IF FGt(a.x0, b.x0) THEN 1 ELSE 0, 0)

\* c_dd_comp, and its overloads taking a double on one side.
c_dd_compBody(X, a, b) ==
  RV(IF dd_lt(a, b) THEN -1 ELSE IF dd_gt(a, b) THEN 1 ELSE 0, 0)
c_dd_comp_dd_dBody(X, a, b) ==
  Then(FromD(b), LAMBDA bb :
    RV(IF dd_lt(a, bb) THEN -1 ELSE IF dd_gt(a, bb) THEN 1 ELSE 0, 0))
c_dd_comp_d_ddBody(X, a, b) ==
  Then(FromD(a), LAMBDA aa :
    RV(IF dd_lt(aa, b) THEN -1 ELSE IF dd_gt(aa, b) THEN 1 ELSE 0, 0))

\* c_dd_sincos: sincos(*a, *s, *c) with the two outputs as one value.
c_dd_sincosBody(X, a) ==
  Then(sincos(X, a), LAMBDA r :
    [v |-> [s |-> r.s, c |-> r.c], h |-> r.h, oob |-> r.oob])

\* qd::nint applied to the double d by a caller.
nintBody(X, d) == RV(nint_d(d), 0)

\* The operation or kernel function named f applied to the arguments x.
Call(f, x) ==
  CASE f = "QN" -> QNBody(x[1], x[2])
    [] f = "RoundDown" -> RoundDownBody(x[1])
    [] f = "Iv" -> IvBody(x[1], x[2])
    [] f = "EncLo" -> EncLoBody(x[1])
    [] f = "EncHi" -> EncHiBody(x[1])
    [] f = "Small" -> SmallBody(x[1])
    [] f = "FAdd" -> FAddBody(x[1], x[2])
    [] f = "FMul" -> FMulBody(x[1], x[2])
    [] f = "FDiv" -> FDivBody(x[1], x[2])
    [] f = "qd_sqrt" -> qd_sqrtBody(x[1])
    [] f = "qd_fabs" -> qd_fabsBody(x[1])
    [] f = "qd_floor" -> qd_floorBody(x[1])
    [] f = "qd_ceil" -> qd_ceilBody(x[1])
    [] f = "qd_log" -> qd_logBody(x[1])
    [] f = "qd_exp" -> qd_expBody(x[1])
    [] f = "qd_ldexp" -> qd_ldexpBody(x[1], x[2])
    [] f = "dd_add" -> dd_addBody(x[1], x[2])
    [] f = "dd_sub" -> dd_subBody(x[1], x[2])
    [] f = "dd_mul" -> dd_mulBody(x[1], x[2])
    [] f = "dd_div" -> dd_divBody(x[1], x[2])
    [] f = "pow_int" -> pow_intBody(x[1], x[2], x[3])
    [] f = "Cmp" -> CmpBody(x[1], x[2])
    [] f = "FNeg" -> FNegBody(x[1])
    [] f = "SgnOpt" -> SgnOptBody(x[1])
    [] f = "sin_taylor" -> sin_taylorBody(x[1], x[2])
    [] f = "Reduce" -> ReduceBody(x[1], x[2])
    [] f = "cos_taylor" -> cos_taylorBody(x[1], x[2])
    [] f = "is_zero" -> is_zeroBody(x[1])
    [] f = "QLe" -> QLeBody(x[1], x[2])
    [] f = "sincos_taylor" -> sincos_taylorBody(x[1], x[2])
    [] f = "sqrt" -> sqrtBody(x[1], x[2])
    [] f = "npwr" -> npwrBody(x[1], x[2], x[3])
    [] f = "nroot" -> nrootBody(x[1], x[2], x[3])
    [] f = "exp" -> expBody(x[1], x[2])
    [] f = "log" -> logBody(x[1], x[2])
    [] f = "sin" -> sinBody(x[1], x[2])
    [] f = "cos" -> cosBody(x[1], x[2])
    [] f = "sincos" -> sincosBody(x[1], x[2])
    [] f = "atan" -> atanBody(x[1], x[2])
    [] f = "atan2" -> atan2Body(x[1], x[2], x[3])
    [] f = "asin" -> asinBody(x[1], x[2])
    [] f = "acos" -> acosBody(x[1], x[2])
    [] f = "sinh" -> sinhBody(x[1], x[2])
    [] f = "cosh" -> coshBody(x[1], x[2])
    [] f = "tanh" -> tanhBody(x[1], x[2])
    [] f = "acosh" -> acoshBody(x[1], x[2])
    [] f = "atanh" -> atanhBody(x[1], x[2])
    [] f = "fmod" -> fmodBody(x[1], x[2], x[3])
    [] f = "divrem" -> c_dd_divremBody(x[1], x[2], x[3])
    [] f = "qd_divrem" -> c_qd_divremBody(x[1], x[2], x[3])
    [] f = "c_sincos" -> c_dd_sincosBody(x[1], x[2])
    [] f = "sin_reduced" -> sin_reducedBody(x[1], x[2])
    [] f = "cos_reduced" -> cos_reducedBody(x[1], x[2])
    [] f = "sincos_reduced" -> sincos_reducedBody(x[1], x[2])
    [] f = "nint" -> nintBody(x[1], x[2])
    [] f = "comp" -> c_dd_compBody(x[1], x[2], x[3])
    [] f = "comp_dd_d" -> c_dd_comp_dd_dBody(x[1], x[2], x[3])
    [] f = "comp_d_dd" -> c_dd_comp_d_ddBody(x[1], x[2], x[3])

(***************************************************************************)
(* The C entry points as a state machine.  A caller makes one call at a    *)
(* time and takes its result before the next; c_dd_init runs on any        *)
(* thread.                                                                 *)
(***************************************************************************)
VARIABLES
  sent,    \* qd::_d_nan and qd::_d_inf
  tbl,     \* the dd_real constants
  build,   \* what the build makes of the undefined operations
  inits,   \* completed runs of c_dd_init (counted up to MaxInits)
  call,    \* the entry point last called, its arguments and what it returned
  ipc      \* per thread: the next assignment of c_dd_init it will make,
           \* 0 when it is not inside c_dd_init

vars == <<sent, tbl, build, inits, call, ipc>>

MaxInits == 2
MaxTerms == 2
NThreads == 2
Threads == 1..NThreads

\* The arguments callers pass.
V(n, d) == DD(R(n, d), D(0))
NegInfdd == DD(Inf(-1), Inf(-1))
OneMinus == DD(D(1), R(-1, 32))
OnePlus == DD(D(1), R(1, 32))
MinusOneMinus == DD(D(-1), R(1, 32))
PiTimes(n, d) == DD(Ex("pi", n, d), D(0))

SqrtArgs ==
  {NaNdd, Zero, V(4, 1), V(2, 1), V(1, 4), V(-1, 1), V(-4, 1), Infdd,
   NegInfdd}
NpwrArgs == {NaNdd, Zero, One, V(-1, 1), V(2, 1), V(-2, 1), V(1, 2)}
NrootArgs == {NaNdd, Zero, V(4, 1), V(-4, 1), V(8, 1), V(-8, 1)}
NrootDegrees == {MinInt, -1, 0, 1, 2, 3, 4}
ExpArgs ==
  {NaNdd, Zero, One, V(1, 2), V(-1, 2), V(709, 1), V(-709, 1), V(710, 1),
   V(-710, 1), DD(D(709), R(-1, 32)), DD(D(-709), R(1, 32)), Infdd,
   NegInfdd}
LogArgs == {NaNdd, Zero, One, V(-1, 1), V(2, 1), V(1, 2), Infdd, NegInfdd}
TrigArgs ==
  {NaNdd, Zero, V(1, 2), PiTimes(1, 6), PiTimes(5, 6), PiTimes(-1, 3), Infdd}
Atan2Args == {NaNdd, Zero, One, V(-1, 1), V(2, 1), V(-2, 1)}
AtanArgs == {NaNdd, Zero, One, V(-1, 1), V(2, 1), V(1, 2)}
AsinArgs ==
  {NaNdd, Zero, One, V(-1, 1), V(1, 2), V(-1, 2), V(2, 1), V(-2, 1),
   OneMinus, MinusOneMinus, OnePlus, Infdd}
HypArgs == {NaNdd, Zero, V(1, 2), V(1, 32), V(-1, 32), One, V(710, 1), Infdd}
AcoshArgs ==
  {NaNdd, Zero, One, V(2, 1), V(1, 2), V(-1, 1), OneMinus, Infdd}
AtanhArgs ==
  {NaNdd, Zero, V(1, 2), One, V(-1, 1), V(2, 1), V(-2, 1), OneMinus, Infdd}
FmodArgs ==
  {NaNdd, Zero, One, V(5, 2), V(-5, 2), V(2, 1), V(-2, 1), V(7, 1), V(1, 2)}
MaxHalves == 7
NintArgs ==
  {R(k, 2) : k \in (-MaxHalves)..MaxHalves}
    \cup {R(1, 4), R(3, 4), R(-1, 4), R(-3, 4), NaN, Inf(1), Inf(-1)}
DivremArgs == {NaNdd, Zero, V(7, 1), V(-7, 1), V(2, 1), V(5, 2)}
QdDivremArgs == {MkQD(a.x0) : a \in DivremArgs}
CompArgs ==
  {NaNdd, DD(D(1), NaN), Zero, One, OnePlus, OneMinus, V(-1, 1),
   MinusOneMinus, V(2, 1), Infdd, NegInfdd}
CompDoubles == {NaN, D(0), D(1), D(-1), D(2), R(1, 2), Inf(1)}

NoCall == [op |-> "none"]

\* A call of an entry point: its expansion arguments a and b, its int
\* argument n, and the outcomes w and z of the native steps it makes.
Req(op, a, b, n, w, z) ==
  [op |-> op, a |-> a, b |-> b, n |-> n, w |-> w, z |-> z]

Terms == 1..MaxTerms
Angles == 1..NAngles

\* The calls callers make.
Calls ==
  {Req("sqrt", a, Zero, 0, 1, 1) : a \in SqrtArgs}
    \cup {Req("npwr", a, Zero, n, 1, 1) : a \in NpwrArgs, n \in CInt}
    \cup {Req("nroot", a, Zero, n, 1, 1) : a \in NrootArgs, n \in NrootDegrees}
    \cup {Req("exp", a, Zero, 0, w, 1) : a \in ExpArgs, w \in Terms}
    \cup {Req("log", a, Zero, 0, w, 1) : a \in LogArgs, w \in Terms}
    \cup {Req(op, a, Zero, 0, w, 1) :
            op \in {"sin", "cos"}, a \in TrigArgs, w \in Terms}
    \cup {Req(op, a, Zero, 0, w, z) :
            op \in {"asin", "acos"}, a \in AsinArgs, w \in Terms, z \in Angles}
    \cup {Req("atan", a, Zero, 0, w, z) :
            a \in AtanArgs, w \in Terms, z \in Angles}
    \cup {Req("atan2", a, b, 0, w, z) :
            a \in Atan2Args, b \in Atan2Args, w \in Terms, z \in Angles}
    \cup {Req(op, a, Zero, 0, w, 1) :
            op \in {"sinh", "cosh", "tanh"}, a \in HypArgs, w \in Terms}
    \cup {Req("acosh", a, Zero, 0, w, 1) : a \in AcoshArgs, w \in Terms}
    \cup {Req("atanh", a, Zero, 0, w, 1) : a \in AtanhArgs, w \in Terms}
    \cup {Req("fmod", a, b, 0, 1, 1) : a \in FmodArgs, b \in FmodArgs}
    \cup {Req("divrem", a, b, 0, 1, 1) : a \in DivremArgs, b \in DivremArgs}
    \cup {Req("qd_divrem", a, b, 0, 1, 1) :
            a \in QdDivremArgs, b \in QdDivremArgs}
    \cup {Req("nint", d, Zero, 0, 1, 1) : d \in NintArgs}
    \cup {Req("c_sincos", a, Zero, 0, w, 1) : a \in TrigArgs, w \in Terms}
    \cup {Req("comp", a, b, 0, 1, 1) : a \in CompArgs, b \in CompArgs}
    \cup {Req("comp_dd_d", a, b, 0, 1, 1) : a \in CompArgs, b \in CompDoubles}
    \cup {Req("comp_d_dd", a, b, 0, 1, 1) : a \in CompDoubles, b \in CompArgs}

\* The calls made while a thread may be inside c_dd_init.  Each reads the
\* table: sqrt of a negative number _nan, exp(1) _e and exp(709) _inf.
RaceSqrtArgs == {V(-1, 1), V(-4, 1)}
RaceExpArgs == {One, V(709, 1)}
RaceCalls ==
  {Req("sqrt", a, Zero, 0, 1, 1) : a \in RaceSqrtArgs}
    \cup {Req("exp", a, Zero, 0, 1, 1) : a \in RaceExpArgs}

\* The globals after the first i assignments of c_dd_init.
RECURSIVE InitUpTo(_)
InitUpTo(i) ==
  IF i = 0 THEN <<ZeroSent, ZeroTbl>>
  ELSE LET g == InitUpTo(i - 1) IN InitStep(i, g[1], g[2])

\* The globals a call can find: those of a process in which c_dd_init never
\* ran or ran to completion, and those left by part of its assignments.
Settled == {InitUpTo(0), InitUpTo(NInitSteps)}
Globals == {InitUpTo(i) : i \in 0..NInitSteps}

\* c_dd_<op>: *b = <op>(*a), for the call c in the context X.
Kernel(X, c) ==
  Call(c.op, IF c.op \in {"npwr", "nroot"} THEN <<X, c.a, c.n>>
             ELSE IF c.op \in {"atan2", "fmod", "divrem", "qd_divrem", "comp",
                              "comp_dd_d", "comp_d_dd"}
               THEN <<X, c.a, c.b>>
             ELSE <<X, c.a>>)

\* The kernel reads the globals, the build and its arguments and nothing
\* else: Outcome holds what each call returns for each of them, as an
\* explicit table (the merge with the empty function enumerates it).
Inputs ==
  (Calls \X Builds \X Settled) \cup (RaceCalls \X Builds \X Globals)
Outcome ==
  [i \in Inputs |->
     Kernel([sent |-> i[3][1], tbl |-> i[3][2], b |-> i[2],
             w |-> i[1].w, z |-> i[1].z], i[1])] @@ <<>>

\* A table some but not all of whose assignments have been made.
Partial(S, T) == <<S, T>> \notin Settled

\* The record of a finished call c that returned res.
Done(c, res) ==
  [op |-> c.op, a |-> c.a, b |-> c.b, n |-> c.n, w |-> c.w, z |-> c.z,
   r |-> res.v, h |-> res.h, oob |-> res.oob,
   part |-> Partial(sent, tbl)]

\* What the call c returns to its caller; the globals are only read.
Result(c) == Done(c, Outcome[c, build, <<sent, tbl>>])

\* What no entry point but c_dd_init assigns.
globals == <<sent, tbl, build, inits, ipc>>

Init ==
  /\ sent = ZeroSent
  /\ tbl = ZeroTbl
  /\ build \in Builds
  /\ inits = 0
  /\ call = NoCall
  /\ ipc = [t \in Threads |-> 0]

\* c_dd_init run to completion by one thread while no other is inside it.
c_dd_init ==
  /\ call = NoCall
  /\ inits < MaxInits
  /\ \A t \in Threads : ipc[t] = 0
  /\ LET st == InitFrom(1, sent, tbl)
     IN  sent' = st[1] /\ tbl' = st[2]
  /\ inits' = inits + 1
  /\ call' = [op |-> "init"]
  /\ UNCHANGED <<build, ipc>>

c_dd_sqrt(a) ==
  /\ call = NoCall
  /\ call' = Result(Req("sqrt", a, Zero, 0, 1, 1))
  /\ UNCHANGED globals
c_dd_npwr(a, n) ==
  /\ call = NoCall
  /\ call' = Result(Req("npwr", a, Zero, n, 1, 1))
  /\ UNCHANGED globals
c_dd_nroot(a, n) ==
  /\ call = NoCall
  /\ call' = Result(Req("nroot", a, Zero, n, 1, 1))
  /\ UNCHANGED globals
\* c_dd_exp keeping its last result in the table entry _e.
c_dd_exp_caching(a, w) ==
  /\ call = NoCall
  /\ call' = Result(Req("exp", a, Zero, 0, w, 1))
  /\ tbl' = [tbl EXCEPT !["_e"] = call'.r]
  /\ UNCHANGED <<sent, build, inits, ipc>>

c_dd_exp(a, w) ==
  /\ call = NoCall
  /\ call' = Result(Req("exp", a, Zero, 0, w, 1))
  /\ UNCHANGED globals
c_dd_log(a, w) ==
  /\ call = NoCall
  /\ call' = Result(Req("log", a, Zero, 0, w, 1))
  /\ UNCHANGED globals
c_dd_sin(a, w) ==
  /\ call = NoCall
  /\ call' = Result(Req("sin", a, Zero, 0, w, 1))
  /\ UNCHANGED globals
c_dd_cos(a, w) ==
  /\ call = NoCall
  /\ call' = Result(Req("cos", a, Zero, 0, w, 1))
  /\ UNCHANGED globals
c_dd_asin(a, w, z) ==
  /\ call = NoCall
  /\ call' = Result(Req("asin", a, Zero, 0, w, z))
  /\ UNCHANGED globals
c_dd_acos(a, w, z) ==
  /\ call = NoCall
  /\ call' = Result(Req("acos", a, Zero, 0, w, z))
  /\ UNCHANGED globals
c_dd_atan(a, w, z) ==
  /\ call = NoCall
  /\ call' = Result(Req("atan", a, Zero, 0, w, z))
  /\ UNCHANGED globals
\* a is y and b is x
c_dd_atan2(a, b, w, z) ==
  /\ call = NoCall
  /\ call' = Result(Req("atan2", a, b, 0, w, z))
  /\ UNCHANGED globals
c_dd_sinh(a, w) ==
  /\ call = NoCall
  /\ call' = Result(Req("sinh", a, Zero, 0, w, 1))
  /\ UNCHANGED globals
c_dd_cosh(a, w) ==
  /\ call = NoCall
  /\ call' = Result(Req("cosh", a, Zero, 0, w, 1))
  /\ UNCHANGED globals
c_dd_tanh(a, w) ==
  /\ call = NoCall
  /\ call' = Result(Req("tanh", a, Zero, 0, w, 1))
  /\ UNCHANGED globals
c_dd_acosh(a, w) ==
  /\ call = NoCall
  /\ call' = Result(Req("acosh", a, Zero, 0, w, 1))
  /\ UNCHANGED globals
c_dd_atanh(a, w) ==
  /\ call = NoCall
  /\ call' = Result(Req("atanh", a, Zero, 0, w, 1))
  /\ UNCHANGED globals
c_dd_fmod(a, b) ==
  /\ call = NoCall
  /\ call' = Result(Req("fmod", a, b, 0, 1, 1))
  /\ UNCHANGED globals

c_dd_divrem(a, b) ==
  /\ call = NoCall
  /\ call' = Result(Req("divrem", a, b, 0, 1, 1))
  /\ UNCHANGED globals

c_qd_divrem(a, b) ==
  /\ call = NoCall
  /\ call' = Result(Req("qd_divrem", a, b, 0, 1, 1))
  /\ UNCHANGED globals

c_dd_sincos(a, w) ==
  /\ call = NoCall
  /\ call' = Result(Req("c_sincos", a, Zero, 0, w, 1))
  /\ UNCHANGED globals

nint(d) ==
  /\ call = NoCall
  /\ call' = Result(Req("nint", d, Zero, 0, 1, 1))
  /\ UNCHANGED globals

c_dd_comp(a, b) ==
  /\ call = NoCall
  /\ call' = Result(Req("comp", a, b, 0, 1, 1))
  /\ UNCHANGED globals

c_dd_comp_dd_d(a, b) ==
  /\ call = NoCall
  /\ call' = Result(Req("comp_dd_d", a, b, 0, 1, 1))
  /\ UNCHANGED globals

c_dd_comp_d_dd(a, b) ==
  /\ call = NoCall
  /\ call' = Result(Req("comp_d_dd", a, b, 0, 1, 1))
  /\ UNCHANGED globals

\* The caller takes the result and is ready for its next call.
Return ==
  /\ call # NoCall
  /\ call' = NoCall
  /\ UNCHANGED <<sent, tbl, build, inits, ipc>>

Next ==
  \/ c_dd_init
  \/ \E a \in SqrtArgs : c_dd_sqrt(a)
  \/ \E a \in NpwrArgs, n \in CInt : c_dd_npwr(a, n)
  \/ \E a \in NrootArgs, n \in NrootDegrees : c_dd_nroot(a, n)
  \/ \E a \in ExpArgs, w \in Terms : c_dd_exp(a, w)
  \/ \E a \in LogArgs, w \in Terms : c_dd_log(a, w)
  \/ \E a \in TrigArgs, w \in Terms : c_dd_sin(a, w)
  \/ \E a \in TrigArgs, w \in Terms : c_dd_cos(a, w)
  \/ \E a \in AsinArgs, w \in Terms, z \in Angles :
       c_dd_asin(a, w, z)
  \/ \E a \in AsinArgs, w \in Terms, z \in Angles :
       c_dd_acos(a, w, z)
  \/ \E a \in AtanArgs, w \in Terms, z \in Angles :
       c_dd_atan(a, w, z)
  \/ \E a \in Atan2Args, b \in Atan2Args, w \in Terms,
        z \in Angles : c_dd_atan2(a, b, w, z)
  \/ \E a \in HypArgs, w \in Terms : c_dd_sinh(a, w)
  \/ \E a \in HypArgs, w \in Terms : c_dd_cosh(a, w)
  \/ \E a \in HypArgs, w \in Terms : c_dd_tanh(a, w)
  \/ \E a \in AcoshArgs, w \in Terms : c_dd_acosh(a, w)
  \/ \E a \in AtanhArgs, w \in Terms : c_dd_atanh(a, w)
  \/ \E a \in FmodArgs, b \in FmodArgs : c_dd_fmod(a, b)
  \/ \E a \in DivremArgs, b \in DivremArgs : c_dd_divrem(a, b)
  \/ \E a \in QdDivremArgs, b \in QdDivremArgs : c_qd_divrem(a, b)
  \/ \E a \in TrigArgs, w \in Terms : c_dd_sincos(a, w)
  \/ \E d \in NintArgs : nint(d)
  \/ \E a \in CompArgs, b \in CompArgs : c_dd_comp(a, b)
  \/ \E a \in CompArgs, b \in CompDoubles : c_dd_comp_dd_d(a, b)
  \/ \E a \in CompDoubles, b \in CompArgs : c_dd_comp_d_dd(a, b)
  \/ Return

Spec == Init /\ [][Next]_vars

(***************************************************************************)
(* c_dd_init beside other callers.  Nothing in c_dd_init or in the entry   *)
(* points takes a lock or tests a flag, so another thread runs between any *)
(* two of its assignments: here each assignment is one step.               *)
(***************************************************************************)
Inside == {t \in Threads : ipc[t] > 0}

\* Thread t makes its next assignment of c_dd_init, entering the function
\* for the first one and returning after the last.
c_dd_init_step(t) ==
  /\ ipc[t] > 0 \/ inits + Cardinality(Inside) < MaxInits
  /\ LET i  == IF ipc[t] = 0 THEN 1 ELSE ipc[t]
         st == InitStep(i, sent, tbl)
     IN  /\ sent' = st[1]
         /\ tbl' = st[2]
         /\ ipc' = [ipc EXCEPT ![t] = IF i < NInitSteps THEN i + 1 ELSE 0]
         /\ inits' = IF i < NInitSteps THEN inits ELSE inits + 1
  /\ UNCHANGED <<build, call>>

RaceNext ==
  \/ \E t \in Threads : c_dd_init_step(t)
  \/ \E a \in RaceSqrtArgs : c_dd_sqrt(a)
  \/ \E a \in RaceExpArgs : c_dd_exp(a, 1)
  \/ Return

SpecRace == Init /\ [][RaceNext]_vars

(***************************************************************************)
(* The basic functions of inline.h on a binary floating-point format of    *)
(* Prec significand bits, round to nearest, ties to even.  A finite double *)
(* is an integer multiple of the smallest unit, so that no operation       *)
(* underflows; a magnitude of 2^MaxExp or more overflows to infinity.  The *)
(* constants of split scale with the format: for the 53 bits and the       *)
(* 2^1024 overflow threshold of double they are 2^27 + 1, 2^996 and 2^28.  *)
(***************************************************************************)
Prec == 4
SplitShift == (Prec + 1) \div 2
MaxExp == 2 * SplitShift + Prec + 2
Huge == Pow2(MaxExp)
QD_SPLITTER == Pow2(SplitShift) + 1
QD_SPLIT_THRESH == Pow2(MaxExp - SplitShift - 1)
SplitScale == Pow2(SplitShift + 1)

Num(n) == [k |-> "num", n |-> n]
InfF(s) == [k |-> "inf", n |-> s]
NaNF == [k |-> "nan", n |-> 0]
IsNum(a) == a.k = "num"

RECURSIVE BitLen(_)
\* the number of bits of the natural number m
BitLen(m) == IF m = 0 THEN 0 ELSE 1 + BitLen(m \div 2)

\* the unit in the last place of the integer x taken as a double, when x
\* has more than Prec bits
Ulp(x) == Pow2(BitLen(Abs(x)) - Prec)

\* the integer x rounded to Prec bits, to nearest, ties to even
RoundInt(x) ==
  IF BitLen(Abs(x)) <= Prec THEN x
  ELSE LET u == Ulp(x)
           q == Abs(x) \div u
           r == Abs(x) % u
           up == 2 * r > u \/ (2 * r = u /\ q % 2 = 1)
       IN  (IF x < 0 THEN -1 ELSE 1) * (IF up THEN q + 1 ELSE q) * u

\* the double nearest to the exact result x
Fl(x) ==
  LET y == RoundInt(x)
  IN  IF Abs(y) >= Huge THEN InfF(IF y < 0 THEN -1 ELSE 1) ELSE Num(y)

\* the operators +, -, * and unary - of double
fl_neg(a) == IF a.k = "nan" THEN a ELSE [k |-> a.k, n |-> -a.n]
fl_add(a, b) ==
  IF a.k = "nan" \/ b.k = "nan" THEN NaNF
  ELSE IF a.k = "inf" /\ b.k = "inf" THEN (IF a.n = b.n THEN a ELSE NaNF)
  ELSE IF a.k = "inf" THEN a
  ELSE IF b.k = "inf" THEN b
  ELSE Fl(a.n + b.n)
fl_sub(a, b) == fl_add(a, fl_neg(b))
fl_mul(a, b) ==
  IF a.k = "nan" \/ b.k = "nan" THEN NaNF
  ELSE IF a.k = "inf" \/ b.k = "inf"
    THEN (IF a.n = 0 \/ b.n = 0 THEN NaNF
          ELSE InfF(IF (a.n < 0) = (b.n < 0) THEN 1 ELSE -1))
  ELSE Fl(a.n * b.n)
fl_gt(a, b) ==
  /\ a.k # "nan" /\ b.k # "nan"
  /\ a.n * (IF a.k = "inf" THEN Huge ELSE 1)
       > b.n * (IF b.k = "inf" THEN Huge ELSE 1)

\* a * 2^-(SplitShift+1), exact for the doubles above the threshold, whose
\* unit in the last place is a multiple of the scale
fl_scale_down(a) == IF IsNum(a) THEN Num(a.n \div SplitScale) ELSE a

quick_two_sum(a, b) ==
  LET s == fl_add(a, b)
  IN  [s |-> s, err |-> fl_sub(b, fl_sub(s, a))]

\* two_sum with the error term of quick_two_sum.
two_sum_ordered(a, b) ==
  LET s == fl_add(a, b)
  IN  [s |-> s, err |-> fl_sub(b, fl_sub(s, a))]

two_sum(a, b) ==
  LET s == fl_add(a, b)
      bb == fl_sub(s, a)
  IN  [s |-> s,
       err |-> fl_add(fl_sub(a, fl_sub(s, bb)), fl_sub(b, bb))]

split(a) ==
  IF fl_gt(a, Num(QD_SPLIT_THRESH)) \/ fl_gt(Num(-QD_SPLIT_THRESH), a) THEN
    LET a1 == fl_scale_down(a)
        temp == fl_mul(Num(QD_SPLITTER), a1)
        hi == fl_sub(temp, fl_sub(temp, a1))
        lo == fl_sub(a1, hi)
    IN  [hi |-> fl_mul(hi, Num(SplitScale)), lo |-> fl_mul(lo, Num(SplitScale))]
  ELSE
    LET temp == fl_mul(Num(QD_SPLITTER), a)
        hi == fl_sub(temp, fl_sub(temp, a))
    IN  [hi |-> hi, lo |-> fl_sub(a, hi)]

\* QD_FMS(a, b, c): a * b - c with one rounding
QD_FMS(a, b, c) ==
  IF IsNum(a) /\ IsNum(b) /\ IsNum(c) THEN Fl(a.n * b.n - c.n)
  ELSE fl_sub(fl_mul(a, b), c)

\* two_prod as compiled with QD_FMS defined (fms) and without
two_prod(a, b, fms) ==
  LET p == fl_mul(a, b)
  IN  IF fms THEN [p |-> p, err |-> QD_FMS(a, b, p)]
      ELSE LET A == split(a)
               B == split(b)
           IN  [p |-> p,
                err |-> fl_add(fl_add(fl_add(fl_sub(fl_mul(A.hi, B.hi), p),
                                             fl_mul(A.hi, B.lo)),
                                      fl_mul(A.lo, B.hi)),
                               fl_mul(A.lo, B.lo))]

\* The finite doubles below 2^e in magnitude.
Doubles(e) == {n \in (1 - Pow2(e))..(Pow2(e) - 1) : RoundInt(n) = n}
SumExp == Prec + 3
SumArgs == Doubles(SumExp)
ProdArgs == Doubles(MaxExp)
ProdSmallArgs == Doubles(Prec)

FloatInit == Init /\ build = [nanInt |-> MinInt, absMin |-> MinInt]

\* two_sum of two doubles
TwoSum ==
  /\ call = NoCall
  /\ \E a \in SumArgs, b \in SumArgs :
       call' = [op |-> "two_sum", a |-> Num(a), b |-> Num(b),
                r |-> two_sum(Num(a), Num(b))]
  /\ UNCHANGED globals

\* quick_two_sum of two doubles
QuickTwoSum ==
  /\ call = NoCall
  /\ \E a \in SumArgs, b \in SumArgs :
       call' = [op |-> "quick_two_sum", a |-> Num(a), b |-> Num(b),
                r |-> quick_two_sum(Num(a), Num(b))]
  /\ UNCHANGED globals

\* two_prod of two doubles, built with or without QD_FMS
TwoProd ==
  /\ call = NoCall
  /\ \E a \in ProdArgs, b \in ProdSmallArgs, fms \in BOOLEAN :
       call' = [op |-> "two_prod", a |-> Num(a), b |-> Num(b), fms |-> fms,
                r |-> two_prod(Num(a), Num(b), fms)]
  /\ UNCHANGED globals

FloatNext ==
  \/ TwoSum
  \/ QuickTwoSum
  \/ TwoProd
  \/ Return

SpecFloat == FloatInit /\ [][FloatNext]_vars

(***************************************************************************)
(* sin, cos and sincos after and up to their argument reduction            *)
(*                                                                         *)
(* The three functions reduce their argument to a remainder t and the      *)
(* multipliers j and k, and then combine sin t and cos t with the table    *)
(* entries.  Here each half is applied on its own: the combination to the  *)
(* remainders and multipliers of TrigRemainders and Quadrants \X Steps, the *)
(* reduction to the arguments of ReduceArgs.                               *)
(***************************************************************************)
MaxQuadrant == 3
MaxStep == 5
MaxAngle == 140
Quadrants == (-MaxQuadrant)..MaxQuadrant
Steps == (-MaxStep)..MaxStep
TrigRemainders == {PiTimes(1, 64), PiTimes(-1, 32)}
ReduceArgs ==
  {PiTimes(m, 64) : m \in ((-MaxAngle)..MaxAngle) \ {0}}
    \cup {PiTimes(6401, 64), PiTimes(-6437, 64), PiTimes(12345, 64),
          PiTimes(-3, 7), PiTimes(5, 6)}
    \cup {V(1, 1), V(-1, 1), V(1, 2), V(-1, 2), V(1, 4)}

\* The locals t, j, k and abs_k as the reduction leaves them.
Locals(t, j, k) == [t |-> t, j |-> j, k |-> k, abs_k |-> qd_abs(build, k)]

\* The context of a call made now.
Now(w) == [sent |-> sent, tbl |-> tbl, b |-> build, w |-> w, z |-> 1]

\* The record of a finished call of op on the remainder t and multipliers
\* j and k, which returned res.
Mixed(op, t, j, k, w, res) ==
  [op |-> op, a |-> t, j |-> j, k |-> k, w |-> w, z |-> 1,
   r |-> res.v, h |-> res.h, oob |-> res.oob]

\* sin from the end of its reduction on
SinReduced(t, j, k, w) ==
  /\ call = NoCall
  /\ call' = Mixed("sin_reduced", t, j, k, w,
                    sin_reduced(Now(w), Locals(t, j, k)))
  /\ UNCHANGED globals

\* cos from the end of its reduction on
CosReduced(t, j, k, w) ==
  /\ call = NoCall
  /\ call' = Mixed("cos_reduced", t, j, k, w,
                    cos_reduced(Now(w), Locals(t, j, k)))
  /\ UNCHANGED globals

\* sincos from the end of its reduction on
SincosReduced(t, j, k, w) ==
  /\ call = NoCall
  /\ call' = LET res == sincos_reduced(Now(w), Locals(t, j, k))
              IN  Mixed("sincos_reduced", t, j, k, w,
                        [v |-> [s |-> res.s, c |-> res.c], h |-> res.h,
                         oob |-> res.oob])
  /\ UNCHANGED globals

\* the reduction of the argument a
Reduction(a) ==
  /\ call = NoCall
  /\ call' = [op |-> "reduce", a |-> a, w |-> 1, z |-> 1,
              r |-> Reduce(Now(1), a)]
  /\ UNCHANGED globals

\* c_dd_init has run: the tables hold pi and its fractions.
TrigInit ==
  /\ sent = FullSent
  /\ tbl = FullTbl
  /\ build = [nanInt |-> MinInt, absMin |-> MinInt]
  /\ inits = 1
  /\ call = NoCall
  /\ ipc = [t \in Threads |-> 0]

TrigNext ==
  \/ \E t \in TrigRemainders, j \in Quadrants, k \in Steps, w \in Terms :
       SinReduced(t, j, k, w)
  \/ \E t \in TrigRemainders, j \in Quadrants, k \in Steps, w \in Terms :
       CosReduced(t, j, k, w)
  \/ \E t \in TrigRemainders, j \in Quadrants, k \in Steps, w \in Terms :
       SincosReduced(t, j, k, w)
  \/ \E a \in ReduceArgs : Reduction(a)
  \/ Return

SpecTrig == TrigInit /\ [][TrigNext]_vars

(***************************************************************************)
(* The loops of the kernel, one step per execution of a loop body          *)
(*                                                                         *)
(* call holds the frame of the function whose loop is running: its loop    *)
(* variables, the executions of the body so far (iters), the indices of    *)
(* inv_fact read (reads), the terms added to the series (adds) and the     *)
(* multiplications and squarings made (mults).  The test of a term against *)
(* its threshold depends on the argument: it is an input of the step.  In  *)
(* sinh nothing but that test ends the loop, so the step keeps the         *)
(* magnitude of the term: its binary exponent, "zero" or "nan".  Exponents *)
(* go down to -MinExpo, below which a product underflows to zero, and      *)
(* dd_real::_eps is 2^-EpsBits.                                            *)
(***************************************************************************)
MinExpo == 12
EpsBits == 3
MaxDrop == 3
\* |a| <= 0.05 < 2^-4: the exponent of a small argument is at most -5
SmallExpo == 5
\* the cap of the loop of exp:  i < 5
ExpCap == 5

\* magnitudes: NaN, zero, or a nonzero number by its binary exponent
NaNMag == [k |-> "nan", e |-> 0]
ZeroMag == [k |-> "zero", e |-> 0]
Mag(e) == [k |-> "num", e |-> e]
Magnitudes == {NaNMag} \cup {Mag(e) : e \in (-MinExpo)..(-SmallExpo)}

\* the magnitude of a product or quotient whose exponent is e
Underflow(e) == IF e < -MinExpo THEN ZeroMag ELSE Mag(e)

\* qd_fabs(to_double(a) * _eps), the threshold of sinh for an argument of
\* magnitude m
SinhThresh(m) == IF m.k = "num" THEN Underflow(m.e - EpsBits) ELSE m

\* abs(t) > thresh on magnitudes; tie decides between equal exponents
TermAbove(t, th, tie) ==
  IF t.k # "num" \/ th.k = "nan" THEN FALSE
  ELSE IF th.k = "zero" THEN TRUE
  ELSE t.e > th.e \/ (t.e = th.e /\ tie)

\* t *= r; t /= (m-1)*m  for |r| <= 0.0025: the exponent falls by d >= 1
SinhTerm_steady(t, d) == t
SinhTerm(t, d) == IF t.k = "num" THEN Underflow(t.e - d) ELSE t

\* the loop tests
NpwrContinues(N) == N > 0
ExpContinues(i, above) == above /\ i < ExpCap
TaylorContinues(i, above) == i < n_inv_fact /\ above

\* npwr(a, n) up to its loop
NpwrEnter(n) ==
  /\ call = NoCall
  /\ call' = LET N == qd_abs(build, n)
              IN  [op |-> "npwr", pc |-> IF n # 0 /\ N > 1 THEN "loop" ELSE "done",
                   n |-> n, N |-> N, entered |-> n # 0 /\ N > 1,
                   iters |-> 0, mults |-> 0]
  /\ UNCHANGED globals

\* if (N % 2 == 1) s *= r
NpwrMultiplies(N) == N % 2 = 1

NpwrSquares_always(N) == TRUE

\* N /= 2; if (N > 0) r = sqr(r)
NpwrSquares(N) == N > 0

\* one execution of the body of the while loop of npwr, or its exit
NpwrStep ==
  /\ call # NoCall /\ call.op = "npwr" /\ call.pc = "loop"
  /\ call' =
       IF NpwrContinues(call.N) THEN
         LET N1 == call.N \div 2
         IN  [call EXCEPT !.N = N1, !.iters = @ + 1,
                !.mults = @ + (IF NpwrMultiplies(call.N) THEN 1 ELSE 0)
                            + (IF NpwrSquares(N1) THEN 1 ELSE 0)]
       ELSE [call EXCEPT !.pc = "done"]
  /\ UNCHANGED globals

\* exp up to its loop: t = p * inv_fact[0]
ExpEnter ==
  /\ call = NoCall
  /\ call' = [op |-> "exp", pc |-> "loop", i |-> 0, iters |-> 0,
              reads |-> {0}, adds |-> 0]
  /\ UNCHANGED globals

\* one execution of the body of the do-while loop of exp; on exit the
\* final  s += t
ExpStep(above) ==
  /\ call # NoCall /\ call.op = "exp" /\ call.pc = "loop"
  /\ call' =
       LET i1 == call.i + 1
           on == ExpContinues(i1, above)
       IN  [call EXCEPT !.i = i1, !.iters = @ + 1,
              !.reads = @ \cup {i1},
              !.adds = @ + (IF on THEN 1 ELSE 2),
              !.pc = IF on THEN "loop" ELSE "done"]
  /\ UNCHANGED globals

\* sin_taylor (from = 0) or cos_taylor (from = 1) of a nonzero argument up
\* to its loop
TaylorEnter(from) ==
  /\ call = NoCall
  /\ call' = [op |-> IF from = 0 THEN "sin_taylor" ELSE "cos_taylor",
              pc |-> "loop", i |-> from, iters |-> 0, reads |-> {}]
  /\ UNCHANGED globals

\* one execution of the body of the do-while loop of sin_taylor or
\* cos_taylor
TaylorStep(above) ==
  /\ call # NoCall /\ call.op \in {"sin_taylor", "cos_taylor"}
  /\ call.pc = "loop"
  /\ call' =
       [call EXCEPT !.i = @ + 2, !.iters = @ + 1,
          !.reads = @ \cup {call.i},
          !.pc = IF TaylorContinues(call.i + 2, above) THEN "loop"
                 ELSE "done"]
  /\ UNCHANGED globals

\* sinh of a nonzero argument of magnitude e, not above 0.05 (the zero
\* argument returns before the loop), up to its loop
SinhEnter(e) ==
  /\ call = NoCall
  /\ call' = [op |-> "sinh", pc |-> "loop", a |-> e, t |-> e,
              th |-> SinhThresh(e), iters |-> 0]
  /\ UNCHANGED globals

\* one execution of the body of the do-while loop of sinh
SinhStep(d, tie) ==
  /\ call # NoCall /\ call.op = "sinh" /\ call.pc = "loop"
  /\ call' =
       LET t1 == SinhTerm(call.t, d)
       IN  [call EXCEPT !.t = t1, !.iters = @ + 1,
              !.pc = IF TermAbove(t1, call.th, tie) THEN "loop" ELSE "done"]
  /\ UNCHANGED globals

\* the function returns
LoopReturn ==
  /\ call # NoCall /\ call.pc = "done"
  /\ call' = NoCall
  /\ UNCHANGED globals

\* a step of a running loop
LoopStep ==
  \/ NpwrStep
  \/ \E above \in BOOLEAN : ExpStep(above)
  \/ \E above \in BOOLEAN : TaylorStep(above)
  \/ \E d \in 1..MaxDrop, tie \in BOOLEAN : SinhStep(d, tie)

LoopNext ==
  \/ \E n \in CInt : NpwrEnter(n)
  \/ ExpEnter
  \/ \E from \in {0, 1} : TaylorEnter(from)
  \/ \E e \in Magnitudes : SinhEnter(e)
  \/ LoopStep
  \/ LoopReturn

\* A function that has entered a loop goes on executing it.
SpecLoops == Init /\ [][LoopNext]_vars /\ WF_vars(LoopStep \/ LoopReturn)

(***************************************************************************)
(* The classification macros of qd_config.h in both configurations         *)
(***************************************************************************)
\* std::isnan, std::isinf and std::isfinite (__builtin_isnan ... != 0)
std_isnan(x) == IsNaN(x)
std_isinf(x) == IsInf(x)
std_isfinite(x) == ~IsNaN(x) /\ ~IsInf(x)

\* the macros; B.HP_ANDROID tells whether HP_ANDROID is defined
QD_ISFINITE(B, x) == IF B.HP_ANDROID THEN std_isnan(x) ELSE std_isfinite(x)
QD_ISINF(B, x) == IF B.HP_ANDROID THEN std_isinf(x) ELSE std_isinf(x)
QD_ISNAN(B, x) == IF B.HP_ANDROID THEN std_isfinite(x) ELSE std_isnan(x)

\* dd_real::isnan built on QD_ISNAN
isnan_macro(B, a) == QD_ISNAN(B, a.x0) \/ QD_ISNAN(B, a.x1)

ConfigBuilds ==
  [nanInt : {MinInt}, absMin : {MinInt}, HP_ANDROID : BOOLEAN]
ConfigDoubles == NintArgs
ConfigArgs == {NaNdd, Zero, One, V(-1, 2), OneMinus, Infdd, NegInfdd}

ConfigInit ==
  /\ sent = ZeroSent
  /\ tbl = ZeroTbl
  /\ build \in ConfigBuilds
  /\ inits = 0
  /\ call = NoCall
  /\ ipc = [t \in Threads |-> 0]

\* the value of a macro on the double x
Classify(m, x, r) == [op |-> m, x |-> x, r |-> r]

IsFiniteMacro ==
  /\ call = NoCall
  /\ \E x \in ConfigDoubles :
       call' = Classify("QD_ISFINITE", x, QD_ISFINITE(build, x))
  /\ UNCHANGED globals

IsInfMacro ==
  /\ call = NoCall
  /\ \E x \in ConfigDoubles :
       call' = Classify("QD_ISINF", x, QD_ISINF(build, x))
  /\ UNCHANGED globals

IsNanMacro ==
  /\ call = NoCall
  /\ \E x \in ConfigDoubles :
       call' = Classify("QD_ISNAN", x, QD_ISNAN(build, x))
  /\ UNCHANGED globals

\* isnan of the expansion a
IsNanPredicate ==
  /\ call = NoCall
  /\ \E a \in ConfigArgs :
       call' = Classify("isnan", a, isnan_macro(build, a))
  /\ UNCHANGED globals

MacroReturn ==
  /\ call # NoCall
  /\ call' = NoCall
  /\ UNCHANGED globals

ConfigNext ==
  \/ IsFiniteMacro
  \/ IsInfMacro
  \/ IsNanMacro
  \/ IsNanPredicate
  \/ MacroReturn

SpecConfig == ConfigInit /\ [][ConfigNext]_vars

(***************************************************************************)
(* The evaluation paths of sinh, cosh, tanh and sincosh                    *)
(***************************************************************************)
\* the branch each function takes: "zero" the early return, "exp" the
\* closed form on exp(a), "taylor" the series of sinh, "sinh" the values
\* s = sinh(a) and c = sqrt(1 + s^2)
SinhPath(a) ==
  IF is_zero(a) THEN "zero" ELSE IF SinhLarge(a) THEN "exp" ELSE "taylor"
CoshPath(a) == IF is_zero(a) THEN "zero" ELSE "exp"
TanhPath(a) ==
  IF is_zero(a) THEN "zero" ELSE IF TanhLarge(a) THEN "exp" ELSE "sinh"
SincoshPath(a) == IF SincoshSmall(a) THEN "sinh" ELSE "exp"

\* the leading limb is a multiple of 1/40 (0.05 is 2/40); a nonzero
\* trailing limb stands for one within half an ulp of the leading limb
MaxFortieths == 4
HypLeads == {k \in (-MaxFortieths)..MaxFortieths : k # 0}
HypTrails == {D(0), R(1, 800), R(-1, 800)}
PathArgs ==
  {DD(R(k, 40), l) : k \in HypLeads, l \in HypTrails}
    \cup {Zero, NaNdd, Infdd, NegInfdd}

\* a call of op on a that took the branch path; inner is the branch of the
\* call of sinh it made, if any
Took(op, a, path) ==
  [op |-> op, a |-> a, path |-> path,
   inner |-> IF path = "sinh" THEN SinhPath(a) ELSE "none"]

SinhBranch ==
  /\ call = NoCall
  /\ \E a \in PathArgs : call' = Took("sinh", a, SinhPath(a))
  /\ UNCHANGED globals

CoshBranch ==
  /\ call = NoCall
  /\ \E a \in PathArgs : call' = Took("cosh", a, CoshPath(a))
  /\ UNCHANGED globals

TanhBranch ==
  /\ call = NoCall
  /\ \E a \in PathArgs : call' = Took("tanh", a, TanhPath(a))
  /\ UNCHANGED globals

SincoshBranch ==
  /\ call = NoCall
  /\ \E a \in PathArgs : call' = Took("sincosh", a, SincoshPath(a))
  /\ UNCHANGED globals

HypReturn ==
  /\ call # NoCall
  /\ call' = NoCall
  /\ UNCHANGED globals

HypNext ==
  \/ SinhBranch
  \/ CoshBranch
  \/ TanhBranch
  \/ SincoshBranch
  \/ HypReturn

SpecHyp == Init /\ [][HypNext]_vars


(***************************************************************************)
(* Properties.  call holds the last finished call with its arguments, its  *)
(* result r, the number h of calls of dd_real::error it made and whether   *)
(* it read outside a table.                                                *)
(***************************************************************************)
\* c_dd_init has completed at least once
Initialized == inits >= 1
\* an entry point other than c_dd_init has just returned
Returned == call.op \notin {"none", "init"}

\* Sign of (the real value of a) - n, for an expansion a with rational or
\* infinite limbs.
SignRel(a, n) ==
  IF a.x0.k = "inf" THEN a.x0.s
  ELSE QSgn(QSub(QAdd(a.x0.lo, a.x1.lo), <<n, 1>>))
\* Sign of the leading limb of a.
LeadSign(a) == IF a.x0.k = "inf" THEN a.x0.s ELSE QSgn(a.x0.lo)

\* The call c is outside the mathematical domain of its function.
DomainViolation(c) ==
  /\ c.op \in {"sqrt", "log", "asin", "acos", "acosh", "atanh", "atan2"}
  /\ c.a.x0.k # "nan"
  /\ CASE c.op = "sqrt" -> SignRel(c.a, 0) = -1
       [] c.op = "log" -> LeadSign(c.a) <= 0
       [] c.op \in {"asin", "acos"} ->
            SignRel(c.a, 1) = 1 \/ SignRel(c.a, -1) = -1
       [] c.op = "acosh" -> SignRel(c.a, 1) = -1
       [] c.op = "atanh" -> SignRel(c.a, 1) >= 0 \/ SignRel(c.a, -1) <= 0
       [] c.op = "atan2" -> c.a = Zero /\ c.b = Zero
       [] OTHER -> FALSE

\* C1: once c_dd_init has completed, a call outside the domain of sqrt, log,
\* asin, acos, acosh, atanh or atan2 calls dd_real::error exactly once and
\* returns the expansion whose two limbs are NaN.
C1_DomainErrors ==
  (Initialized /\ Returned /\ DomainViolation(call))
    => (call.h = 1 /\ call.r = NaNdd)

\* atan2(0, 0) has returned after c_dd_init.
C1_Atan2Origin ==
  /\ Initialized /\ call.op = "atan2" /\ call.a = Zero /\ call.b = Zero
  /\ call.h = 1
\* every function of C1 has been called outside its domain
C1_EachViolated ==
  \A op \in {"sqrt", "log", "asin", "acos", "acosh", "atanh", "atan2"} :
    \E c \in Calls : c.op = op /\ DomainViolation(c)
\* The call c has a NaN expansion among its arguments.
NaNArgument(c) == c.a = NaNdd \/ (c.op \in {"atan2", "fmod"} /\ c.b = NaNdd)

\* C2: after c_dd_init, sqrt, npwr, nroot, exp, log, sin, cos, atan2, asin,
\* acos, sinh, cosh, tanh, acosh, atanh and fmod return NaN whenever an
\* argument is the NaN expansion (npwr and nroot for every n).
C2_NaNPropagates ==
  (/\ Initialized
   /\ call.op \in {"sqrt", "npwr", "nroot", "exp", "log", "sin", "cos",
                   "atan2", "asin", "acos", "sinh", "cosh", "tanh", "acosh",
                   "atanh", "fmod"}
   /\ NaNArgument(call))
    => call.r.x0.k = "nan"

\* npwr(NaN, 0) has returned 1 after c_dd_init.
C2_NpwrNaNZero ==
  /\ Initialized /\ call.op = "npwr" /\ call.a = NaNdd /\ call.n = 0
  /\ call.r = One /\ call.h = 0
\* C3: initialization is race-free: a call that runs beside c_dd_init never
\* reads a constant from a table only part of whose assignments are made.
C3_RaceFree == Returned => ~call.part

\* sqrt(-1) has returned the still unset _nan, 0, while _2pi was set already.
C3_ReadsUnsetNaN ==
  /\ call.op = "sqrt" /\ call.a = V(-1, 1) /\ call.part
  /\ call.r = Zero /\ call.h = 1
  /\ tbl["_2pi"] # Zero /\ tbl["_nan"] = Zero
\* The populated table: each constant by the real number its literal
\* approximates, _nan and _inf by their limbs.
Populated ==
  [n \in ConstNames |->
     CASE n = "_2pi" -> DD(Ex("pi", 2, 1), D(0))
       [] n = "_pi" -> DD(Ex("pi", 1, 1), D(0))
       [] n = "_pi2" -> DD(Ex("pi", 1, 2), D(0))
       [] n = "_pi4" -> DD(Ex("pi", 1, 4), D(0))
       [] n = "_3pi4" -> DD(Ex("pi", 3, 4), D(0))
       [] n = "_e" -> DD(Ex("e", 1, 1), D(0))
       [] n = "_log2" -> DD(Ex("ln2", 1, 1), D(0))
       [] n = "_log10" -> DD(Ex("ln10", 1, 1), D(0))
       [] n = "_nan" -> DD(NaN, NaN)
       [] n = "_inf" -> DD(Inf(1), Inf(1))
       [] n = "_max" -> DD(Ex("max", 1, 1), D(0))
       [] n = "_safe_max" -> DD(Ex("smax", 1, 1), D(0))
       [] n = "_pi16" -> DD(Ex("pi", 1, 16), D(0))]

\* C4: c_dd_init is complete and idempotent: once it has run, the thirteen
\* constants and the two sentinels hold their values, and they hold the same
\* values after every later call of c_dd_init or of another entry point.
C4_InitComplete ==
  Initialized =>
    /\ tbl = Populated
    /\ sent = [n \in SentNames |-> IF n = "_d_nan" THEN NaN ELSE Inf(1)]
    /\ InitFrom(1, sent, tbl) = <<sent, tbl>>

\* c_dd_init has returned for the second time.
C4_SecondInit == inits = 2 /\ call.op = "init"
RECURSIVE QPow(_, _)
\* the product of n copies of the rational q
QPow(q, n) == IF n = 0 THEN <<1, 1>> ELSE QMul(q, QPow(q, n - 1))

\* the expansion holding the n-th power of the exact expansion a
Power(a, n) == FromD(ExQ(a.x0.u, QPow(a.x0.lo, n)))

NpwrReturned == Returned /\ call.op = "npwr"

\* C6: for n >= 1 npwr(a, n) is the product of n copies of a (NaN for a
\* NaN), npwr(a, 1) is a, npwr(a, 0) is 1 for every a that is not zero, and
\* npwr(0, 0) is NaN once the constants are initialized.
C6_BinaryPower ==
  NpwrReturned =>
    /\ (call.n >= 1 /\ IsEx(call.a.x0)) => call.r = Power(call.a, call.n)
    /\ (call.n >= 1 /\ isnan(call.a)) => isnan(call.r)
    /\ call.n = 1 => call.r = call.a
    /\ (call.n = 0 /\ call.a # Zero) => call.r = One
    /\ (call.n = 0 /\ call.a = Zero /\ Initialized) => isnan(call.r)

\* npwr(2, 10) has returned 1024.
C6_TwoToTheTenth ==
  NpwrReturned /\ call.a = V(2, 1) /\ call.n = 10 /\ call.r = V(1024, 1)

\* C7: for every negative n, the most negative int included, and every
\* exact a, npwr(a, n) is 1 / a^|n| with |n| the mathematical absolute value.
C7_NegativePower ==
  (NpwrReturned /\ call.n < 0 /\ IsEx(call.a.x0)) =>
    call.r = dd_div(One, Power(call.a, -call.n))

\* npwr(2, n) with n the most negative int has returned 1/2: the absolute
\* value wrapped to n itself, the loop was skipped and 1/a returned.
C7_MostNegativeWraps ==
  NpwrReturned /\ call.a = V(2, 1) /\ call.n = MinInt /\ call.r = V(1, 2)

\* C7 away from the most negative int, where it holds.
C7_NegativePowerAboveMin ==
  (NpwrReturned /\ call.n < 0 /\ call.n > MinInt /\ IsEx(call.a.x0)) =>
    call.r = dd_div(One, Power(call.a, -call.n))
ExpReturned == Initialized /\ Returned /\ call.op = "exp"

\* a <= b for expansions whose limbs are exact or infinite
LimbLe(a, b) ==
  FLt(a.x0, b.x0) \/ (FEq(a.x0, b.x0) /\ FLe(a.x1, b.x1))

\* C8: exp returns 0 for a <= -709, the constant _inf for a >= 709, 1 for a
\* zero and the constant _e, limb for limb, for a one, whatever the number
\* of series terms a full evaluation would take.
C8_ExpSpecial ==
  (ExpReturned /\ ~isnan(call.a)) =>
    /\ LimbLe(call.a, V(-709, 1)) => (call.r = Zero /\ call.h = 0)
    /\ LimbLe(V(709, 1), call.a) => (call.r = Populated["_inf"] /\ call.h = 0)
    /\ call.a = Zero => (call.r = One /\ call.h = 0)
    /\ call.a = One => (call.r = Populated["_e"] /\ call.h = 0)

\* exp(709) has returned +infinity in a call whose series would take the
\* largest number of terms.
C8_ExpAtUpperBound ==
  /\ ExpReturned /\ call.a = V(709, 1) /\ call.w = MaxTerms
  /\ call.r = Infdd

\* the rationals p and q have the same magnitude
SameMagnitude(p, q) == Abs(p[1]) * q[2] = Abs(q[1]) * p[2]

\* The angle of the point (x, y) on an axis or a diagonal, in units of
\* pi/4, from the signs of its coordinates.
Eighths(sy, sx) ==
  CASE sx = 1 /\ sy = 0 -> 0
    [] sx = 1 /\ sy = 1 -> 1
    [] sx = 0 /\ sy = 1 -> 2
    [] sx = -1 /\ sy = 1 -> 3
    [] sx = -1 /\ sy = 0 -> 4
    [] sx = -1 /\ sy = -1 -> -3
    [] sx = 0 /\ sy = -1 -> -2
    [] sx = 1 /\ sy = -1 -> -1

PiFourths(k) == DD(Ex("pi", k, 4), D(0))

\* the exact point (x, y), not the origin, lies on an axis or a diagonal
AxisOrDiagonal(y, x) ==
  /\ IsEx(y.x0) /\ IsEx(x.x0) /\ y.x1 = D(0) /\ x.x1 = D(0)
  /\ ~(y = Zero /\ x = Zero)
  /\ (y = Zero \/ x = Zero \/ SameMagnitude(y.x0.lo, x.x0.lo))

\* C9: on every axis and diagonal case atan2(y, x) returns, without hook
\* call and whatever the outcomes of the native steps of a Newton step would
\* be, the multiple of pi/4 that is the angle of the point (x, y); and
\* atan(a) = atan2(a, 1) gives atan(0) = 0, atan(1) = pi/4, atan(-1) = -pi/4.
C9_Atan2Exact ==
  /\ (Initialized /\ Returned /\ call.op = "atan2"
        /\ AxisOrDiagonal(call.a, call.b)) =>
       /\ call.r = PiFourths(Eighths(QSgn(call.a.x0.lo), QSgn(call.b.x0.lo)))
       /\ call.h = 0 /\ ~call.oob
  /\ (Initialized /\ Returned /\ call.op = "atan"
        /\ call.a \in {Zero, One, V(-1, 1)}) =>
       /\ call.r = PiFourths(QSgn(call.a.x0.lo))
       /\ call.h = 0 /\ ~call.oob

\* atan2(2, -2) has returned 3 pi/4.
C9_SecondQuadrantDiagonal ==
  /\ Initialized /\ Returned /\ call.op = "atan2"
  /\ call.a = V(2, 1) /\ call.b = V(-2, 1) /\ call.r = PiFourths(3)
  /\ call.w = MaxTerms /\ call.z = NAngles
\* the context of the call that returned
Ctx == [sent |-> sent, tbl |-> tbl, b |-> build, w |-> call.w, z |-> call.z]

\* an asin or acos call with |a| <= 1 has returned
InDomain ==
  /\ Initialized /\ Returned /\ call.op \in {"asin", "acos"}
  /\ ~isnan(call.a) /\ ~dd_gt(dd_abs(call.a), One)

\* the other coordinate sqrt(1 - a^2) of the point asin and acos pass on
Cofactor(a) == sqrt(Ctx, dd_sub(One, sqr(a)))

\* C10: for |a| <= 1 asin and acos return without a hook call; at |a| = 1
\* asin is pi/2 with the sign of a and acos is 0 or pi; for |a| < 1 the
\* result is atan2(a, sqrt(1-a^2)), respectively atan2(sqrt(1-a^2), a), of
\* a point that is not the origin, and asin(0) = 0, acos(0) = pi/2.
C10_AsinAcosInDomain ==
  InDomain =>
    /\ call.h = 0 /\ ~call.oob /\ ~isnan(call.r)
    /\ call.a = One =>
         call.r = (IF call.op = "asin" THEN PiFourths(2) ELSE Zero)
    /\ call.a = V(-1, 1) =>
         call.r = (IF call.op = "asin" THEN PiFourths(-2) ELSE PiFourths(4))
    /\ call.a = Zero =>
         call.r = (IF call.op = "asin" THEN Zero ELSE PiFourths(2))
    /\ dd_lt(dd_abs(call.a), One) =>
         /\ ~(call.a = Zero /\ Cofactor(call.a).v = Zero)
         /\ Cofactor(call.a).h = 0
         /\ call.r = (IF call.op = "asin"
                        THEN atan2(Ctx, call.a, Cofactor(call.a).v).v
                        ELSE atan2(Ctx, Cofactor(call.a).v, call.a).v)

\* acos of the pair (1, -1/32), just inside the domain, has returned the
\* result of a Newton step.
C10_AcosJustInside ==
  /\ InDomain /\ call.op = "acos" /\ call.a = OneMinus
  /\ call.r.x0.k = "iv" /\ call.h = 0
NrootReturned == Initialized /\ Returned /\ call.op = "nroot"

\* C11: nroot decides in this order: n <= 0 gives NaN with one hook call
\* for every a; an even n with a negative a gives NaN with one hook call;
\* n = 1 gives a; n = 2 gives sqrt(a); a zero gives 0; and for n >= 3 and a
\* nonzero the result has the sign of a, with nroot(-a, n) = -nroot(a, n)
\* for odd n.
C11_NrootGuards ==
  NrootReturned =>
    /\ call.n <= 0 => (isnan(call.r) /\ call.h = 1)
    /\ (call.n > 0 /\ call.n % 2 = 0 /\ is_negative(call.a)) =>
         (isnan(call.r) /\ call.h = 1)
    /\ call.n = 1 => (call.r = call.a /\ call.h = 0)
    /\ (call.n = 2 /\ ~is_negative(call.a)) =>
         (call.r = sqrt(Ctx, call.a).v /\ call.h = sqrt(Ctx, call.a).h)
    /\ (call.n > 0 /\ call.a = Zero) => (call.r = Zero /\ call.h = 0)
    /\ (call.n >= 3 /\ IsEx(call.a.x0) /\ call.a # Zero
          /\ ~(call.n % 2 = 0 /\ is_negative(call.a))) =>
         /\ call.h = 0
         /\ SgnOpt(call.r.x0) = QSgn(call.a.x0.lo)
         /\ call.n % 2 = 1 =>
              call.r = dd_neg(nroot(Ctx, dd_neg(call.a), call.n).v)

\* nroot(-8, 3) has returned a negative number.
C11_CubeRootOfMinusEight ==
  /\ NrootReturned /\ call.a = V(-8, 1) /\ call.n = 3
  /\ call.r.x0.k = "iv" /\ SgnOpt(call.r.x0) = -1
\* a divrem call on exact operands, the divisor not zero, has returned
DivremReturned ==
  /\ Returned /\ call.op \in {"divrem", "qd_divrem"}
  /\ IsEx(call.a.x0) /\ IsEx(call.b.x0) /\ call.b.x0 # D(0)

\* the quotient nint(a / b) of the call, as a double
Quotient == Val(dd_nint(MkDD(FDiv(call.a.x0, call.b.x0))))

\* C12: c_dd_divrem and c_qd_divrem leave the rounded quotient nint(a/b) in
\* the first field v1 of the output struct and the remainder
\* a - b * nint(a/b) in the second field v2.
C12_QuotientFirst ==
  DivremReturned =>
    /\ call.r.v1.x0 = Quotient
    /\ call.r.v2.x0 = FSub(call.a.x0, FMul(call.b.x0, Quotient))

\* c_dd_divrem(7, 2) has returned with the remainder -1 in v1 and the
\* quotient 4 in v2.
C12_RemainderFirst ==
  /\ DivremReturned /\ call.op = "divrem"
  /\ call.a = V(7, 1) /\ call.b = V(2, 1)
  /\ call.r = dd_real_pair(V(-1, 1), V(4, 1))

\* The fields as the code writes them: v1 the remainder, v2 the quotient.
C12_FieldsAsWritten ==
  DivremReturned =>
    /\ call.r.v2.x0 = Quotient
    /\ call.r.v1.x0 = FSub(call.a.x0, FMul(call.b.x0, Quotient))
\* the operands of the comparison that returned, promoted to expansions
CompLeft == IF call.op = "comp_d_dd" THEN FromD(call.a) ELSE call.a
CompRight == IF call.op = "comp_dd_d" THEN FromD(call.b) ELSE call.b

CompReturned ==
  Returned /\ call.op \in {"comp", "comp_dd_d", "comp_d_dd"}

\* no limb of the expansion a is NaN
NoNaNLimb(a) == ~IsNaN(a.x0) /\ ~IsNaN(a.x1)

\* both limbs of the expansion a are finite numbers
Finite(a) == IsEx(a.x0) /\ IsEx(a.x1)

\* C13: a comparison returns -1, 0 or 1; on finite operands it is -1
\* exactly when a < b and 1 exactly when a > b (as values); on operands
\* without a NaN limb it is 0 exactly when the limbs are equal;
\* c_dd_comp(a, b) = -c_dd_comp(b, a) for all
\* operands; the overloads with a double return what c_dd_comp returns on
\* the promoted operand.
C13_Comparison ==
  CompReturned =>
    /\ call.r \in {-1, 0, 1}
    /\ (Finite(CompLeft) /\ Finite(CompRight)) =>
         /\ call.r = -1 <=> FLt(Val(CompLeft), Val(CompRight))
         /\ call.r = 1 <=> FGt(Val(CompLeft), Val(CompRight))
    /\ (NoNaNLimb(CompLeft) /\ NoNaNLimb(CompRight)) =>
         (call.r = 0 <=> CompLeft = CompRight)
    /\ call.r = -dd_comp(Ctx, CompRight, CompLeft).v
    /\ call.op = "comp_dd_d" =>
         /\ call.r = dd_comp(Ctx, call.a, FromD(call.b)).v
         /\ call.r = -dd_comp_d_dd(Ctx, call.b, call.a).v
    /\ call.op = "comp_d_dd" =>
         call.r = dd_comp(Ctx, FromD(call.a), call.b).v

\* c_dd_comp has returned -1 for the pairs (1, 0) and (1, 1/32), which
\* differ in the trailing limb only.
C13_TrailingLimbDecides ==
  /\ CompReturned /\ call.op = "comp"
  /\ call.a = One /\ call.b = OnePlus /\ call.r = -1
\* the rational q rounded toward zero
QTrunc(q) == IF q[1] >= 0 THEN QFloor(q) ELSE QCeil(q)
QAbs(q) == <<Abs(q[1]), q[2]>>

\* an fmod call on finite operands, the divisor not zero, has returned
FmodReturned ==
  /\ Returned /\ call.op = "fmod"
  /\ Finite(call.a) /\ Finite(call.b) /\ call.b # Zero

\* the operands and the result of the fmod call as rationals
FmodA == Val(call.a).lo
FmodB == Val(call.b).lo
FmodR == Val(call.r).lo

\* C16: fmod(a, b) is a - b * trunc(a / b) with trunc rounding toward
\* zero; for b nonzero the result is smaller than b in magnitude, is zero
\* or has the sign of a, and is a itself when |a| < |b|.
C16_Fmod ==
  FmodReturned =>
    /\ Finite(call.r)
    /\ FmodR = QSub(FmodA, QMul(FmodB, <<QTrunc(QMul(FmodA, QInv(FmodB))), 1>>))
    /\ QLt(QAbs(FmodR), QAbs(FmodB))
    /\ QSgn(FmodR) \in {0, QSgn(FmodA)}
    /\ QLt(QAbs(FmodA), QAbs(FmodB)) => call.r = call.a

\* fmod(-5/2, 2) has returned -1/2.
C16_NegativeDividend ==
  /\ FmodReturned /\ call.a = V(-5, 2) /\ call.b = V(2, 1)
  /\ call.r = V(-1, 2)

\* a call of nint on a finite double has returned
NintReturned == Returned /\ call.op = "nint" /\ IsEx(call.a)

\* the integer n is even
Even(n) == n % 2 = 0

\* C17: nint(d) is an integer at most 1/2 away from d, is d when d is an
\* integer, and for d = k + 1/2 is the even one of k and k + 1.
C17_HalfToEven ==
  NintReturned =>
    /\ IsEx(call.r) /\ call.r.lo[2] = 1
    /\ QLe(QAbs(QSub(call.r.lo, call.a.lo)), <<1, 2>>)
    /\ call.a.lo[2] = 1 => call.r = call.a
    /\ call.a.lo[2] = 2 => Even(call.r.lo[1])

\* nint(1/2) has returned 1, the odd neighbour.
C17_HalfRoundsUp ==
  NintReturned /\ call.a = R(1, 2) /\ call.r = D(1)

\* What nint does at a tie: it returns the larger neighbour k + 1.
C17_HalfUp ==
  NintReturned =>
    /\ IsEx(call.r) /\ call.r.lo[2] = 1
    /\ QLe(QAbs(QSub(call.r.lo, call.a.lo)), <<1, 2>>)
    /\ call.a.lo[2] = 1 => call.r = call.a
    /\ call.a.lo[2] = 2 => call.r.lo = QAdd(call.a.lo, <<1, 2>>)
\* C14: for finite a and b whose rounded sum does not overflow, two_sum
\* returns s = fl(a + b) and err with s + err = a + b exactly and
\* |err| <= ulp(s) / 2, in either magnitude order of a and b; and
\* quick_two_sum returns the same pair whenever |a| >= |b|.
C14_TwoSum ==
  /\ (call.op = "two_sum" /\ IsNum(call.r.s)) =>
       /\ call.r.s = Fl(call.a.n + call.b.n)
       /\ IsNum(call.r.err)
       /\ call.r.s.n + call.r.err.n = call.a.n + call.b.n
       /\ call.r.err.n # 0 =>
            /\ BitLen(Abs(call.r.s.n)) > Prec
            /\ 2 * Abs(call.r.err.n) <= Ulp(call.r.s.n)
  /\ (call.op = "quick_two_sum" /\ Abs(call.a.n) >= Abs(call.b.n)) =>
       call.r = two_sum(call.a, call.b)

\* two_sum(1, 120), the smaller operand first, has returned the rounded
\* sum 120 and the error 1.
C14_SmallerFirst ==
  /\ call.op = "two_sum" /\ call.a = Num(1) /\ call.b = Num(120)
  /\ call.r = [s |-> Num(120), err |-> Num(1)]

\* C15: for finite a and b whose product does not overflow, two_prod
\* compiled without QD_FMS (split and cross terms) and with it return the
\* same p and err, and p + err = a * b exactly, also for |a| above the
\* threshold at which split scales its argument.
C15_PathsAgree ==
  (call.op = "two_prod" /\ IsNum(call.r.p)) =>
    /\ call.r = two_prod(call.a, call.b, ~call.fms)
    /\ IsNum(call.r.err)
    /\ call.r.p.n + call.r.err.n = call.a.n * call.b.n

\* two_prod without QD_FMS has returned, for the largest finite double a
\* and b = 1, the product a with an error term that is not a number.
C15_SplitOverflows ==
  /\ call.op = "two_prod" /\ ~call.fms
  /\ call.a = Num(Huge - Ulp(Huge - 1)) /\ call.b = Num(1)
  /\ call.r.p = call.a /\ call.r.err = NaNF

\* The two paths agree wherever the halves of a and b and their product
\* stay a factor of four below the overflow threshold.
C15_PathsAgreeBelowOverflow ==
  (call.op = "two_prod" /\ 4 * Abs(call.a.n) < Huge
     /\ 4 * Abs(call.a.n * call.b.n) < Huge) =>
    /\ call.r = two_prod(call.a, call.b, ~call.fms)
    /\ IsNum(call.r.err)
    /\ call.r.p.n + call.r.err.n = call.a.n * call.b.n
\* sin, cos or sincos has returned for an argument that is not zero
TrigReturned ==
  /\ Initialized /\ Returned /\ call.op \in {"sin", "cos", "c_sincos"}
  /\ ~is_zero(call.a)

\* the multipliers the reduction of the call computed
Reduced == Reduce(Ctx, call.a)
ReductionFailed == Reduced.j \notin -2..2 \/ Reduced.k \notin -4..4

\* the call returned NaN, in both outputs for sincos
ReturnedNaN ==
  IF call.op = "c_sincos" THEN isnan(call.r.s) /\ isnan(call.r.c)
  ELSE isnan(call.r)

\* C18: whenever the multiplier j is outside [-2, 2] or |k| > 4, sin, cos
\* and sincos call the error hook exactly once and return NaN (sincos in
\* both outputs); in every other case they make no hook call.
C18_UniformFailure ==
  TrigReturned =>
    IF ReductionFailed THEN call.h = 1 /\ ReturnedNaN /\ ~call.oob
    ELSE call.h = 0

\* sincos of NaN has returned without a hook call, after reading outside
\* the tables: j is the most negative int and so is its absolute value.
C18_SincosSilent ==
  /\ TrigReturned /\ call.op = "c_sincos" /\ call.a = NaNdd
  /\ Reduced.j = MinInt /\ call.h = 0 /\ call.oob

\* sin and cos, which test j itself, signal every failed reduction.
C18_SinCosSignal ==
  (TrigReturned /\ call.op \in {"sin", "cos"}) =>
    IF ReductionFailed THEN call.h = 1 /\ ReturnedNaN /\ ~call.oob
    ELSE call.h = 0

\* sin and cos of the sum of two angles, each given by its sine s and its
\* cosine c
AddAngles(p, q) ==
  [s |-> dd_add(dd_mul(p.s, q.c), dd_mul(p.c, q.s)),
   c |-> dd_sub(dd_mul(p.c, q.c), dd_mul(p.s, q.s))]

\* sin and cos of k*pi/16, from u = cos(|k|*pi/16) and v = sin(|k|*pi/16)
StepAngle(k, u, v) ==
  [s |-> IF k > 0 THEN v ELSE IF k < 0 THEN dd_neg(v) ELSE Zero,
   c |-> IF k = 0 THEN One ELSE u]

\* sin and cos of j*pi/2
QuarterTurns(j) ==
  [s |-> CASE j = 1 -> One [] j = -1 -> dd_neg(One) [] OTHER -> Zero,
   c |-> CASE j = 0 -> One [] j \in {-2, 2} -> dd_neg(One) [] OTHER -> Zero]

\* sin and cos of t + j*pi/2 + k*pi/16 by two angle additions
Angle(j, k, u, v, st, ct) ==
  AddAngles(AddAngles([s |-> st, c |-> ct], StepAngle(k, u, v)),
            QuarterTurns(j))

\* Values of u, v, sin t and cos t at which no two of the products and sums
\* the functions can form coincide: equal results there are equal
\* expressions.
GenU == V(3, 1)
GenV == V(5, 1)
GenS == V(7, 1)
GenC == V(11, 1)

\* two exact values are equal
Same(x, y) == IsEx(Val(x)) /\ Val(x) = Val(y)

\* two enclosures have a point in common
Agree(x, y) ==
  /\ Bounded(Val(x)) /\ Bounded(Val(y))
  /\ QLe(EncLo(Val(x)), EncHi(Val(y)))
  /\ QLe(EncLo(Val(y)), EncHi(Val(x)))

\* sin, cos or sincos has returned from an accepted pair (j, k)
MixReturned ==
  /\ Initialized /\ Returned
  /\ call.op \in {"sin_reduced", "cos_reduced", "sincos_reduced"}
  /\ call.j \in -2..2 /\ call.k \in -4..4

\* the table entries u and v of the call
TableU == cos_table(Abs(call.k) - 1)
TableV == sin_table(Abs(call.k) - 1)

\* C19: for every accepted pair (j, k) the expression sin returns is
\* sin(t + j*pi/2 + k*pi/16) and the one cos returns cos(t + j*pi/2 +
\* k*pi/16) by the angle-addition identities, with u = cos(|k|*pi/16) and
\* v = sin(|k|*pi/16) from the tables, and sincos returns the same pair of
\* expressions as sin and cos do separately.  The expressions are compared
\* at GenU, GenV, GenS, GenC, and the values returned with the enclosures of
\* the two angle additions on the table entries and on sin t and cos t.
C19_AngleAddition ==
  MixReturned =>
    LET j == call.j
        k == call.k
        ideal == Angle(j, k, GenU, GenV, GenS, GenC)
        sc == sincos_taylor(Ctx, call.a)
        near == Angle(j, k, TableU, TableV, sc.s, sc.c)
        rd == [t |-> call.a, j |-> j, k |-> k, abs_k |-> Abs(k)]
        mix == SincosMix(Abs(j), j, Abs(k), k, GenU, GenV, GenS, GenC)
    IN  /\ k # 0 =>
              /\ Agree(TableU, cos_taylor(Ctx, PiTimes(Abs(k), 16)))
              /\ Agree(TableV, sin_taylor(Ctx, PiTimes(Abs(k), 16)))
        /\ call.op = "sin_reduced" =>
              /\ Same(SinMix(j, k, GenU, GenV, GenS, GenC), ideal.s)
              /\ Agree(call.r, near.s)
        /\ call.op = "cos_reduced" =>
              /\ Same(CosMix(j, k, GenU, GenV, GenS, GenC), ideal.c)
              /\ Agree(call.r, near.c)
        /\ call.op = "sincos_reduced" =>
              /\ Same(mix[1], ideal.s) /\ Same(mix[2], ideal.c)
              /\ Same(mix[1], SinMix(j, k, GenU, GenV, GenS, GenC))
              /\ Same(mix[2], CosMix(j, k, GenU, GenV, GenS, GenC))
              /\ Agree(call.r.s, near.s) /\ Agree(call.r.c, near.c)
              /\ Agree(call.r.s, sin_reduced(Ctx, rd).v)
              /\ Agree(call.r.c, cos_reduced(Ctx, rd).v)

\* sincos has returned for j = -2 and k = 3, an angle in the third
\* quadrant: both sin and cos negative.
C19_ThirdQuadrant ==
  /\ MixReturned /\ call.op = "sincos_reduced"
  /\ call.j = -2 /\ call.k = 3 /\ call.a = PiTimes(1, 64)
  /\ QLt(EncHi(Val(call.r.s)), QZero) /\ QLt(EncHi(Val(call.r.c)), QZero)

\* the reduction of a finite nonzero argument has returned
ReduceReturned == Initialized /\ Returned /\ call.op = "reduce"

\* a and t + j*pi/2 + k*pi/16 differ by a whole number of turns
WholeTurns(a, rd) ==
  LET rest == dd_sub(a, dd_add(rd.t, dd_add(PiTimes(rd.j, 2),
                                            PiTimes(rd.k, 16))))
      n == dd_div(rest, PiTimes(2, 1))
  IN  IsEx(Val(n)) /\ Val(dd_floor(n)) = Val(n)

\* C20: in exact arithmetic the reduction shared by sin, cos and sincos
\* succeeds for every finite nonzero argument: j is in [-2, 2], |k| <= 4
\* and |t| <= pi/32, so none of the three takes its failure branch.
C20_ReductionSucceeds ==
  ReduceReturned =>
    /\ call.r.j \in -2..2 /\ call.r.k \in -4..4
    /\ qd_abs(build, call.r.j) <= 2 /\ call.r.abs_k <= 4
    /\ ~dd_gt(call.r.t, PiTimes(1, 32)) /\ ~dd_lt(call.r.t, PiTimes(-1, 32))
    /\ IsEx(Val(call.a)) /\ Val(call.a).u = "pi" => WholeTurns(call.a, call.r)

\* 79*pi/64 has been reduced: a turn is taken off, and the multipliers are
\* the extreme j = -2 and k = 4 with the remainder -pi/64.
C20_FarthestStep ==
  /\ ReduceReturned /\ call.a = PiTimes(79, 64)
  /\ call.r.j = -2 /\ call.r.k = 4 /\ call.r.t = PiTimes(-1, 64)

RECURSIVE FloorLog2(_)
\* floor(log2 n) for n >= 1
FloorLog2(n) == IF n <= 1 THEN 0 ELSE 1 + FloorLog2(n \div 2)

\* a loop is running; its function has left the loop
InLoop == call # NoCall /\ call.op # "init" /\ call.pc = "loop"
LoopDone == call # NoCall /\ call.op # "init" /\ call.pc = "done"

\* the executions of each loop body stay within the stated counts
LoopBounds ==
  (InLoop \/ LoopDone) =>
    CASE call.op = "npwr" ->
           /\ call.n # 0 => call.iters <= FloorLog2(Abs(call.n)) + 1
           /\ (LoopDone /\ call.entered) =>
                 call.iters = FloorLog2(qd_abs(build, call.n)) + 1
           /\ (LoopDone /\ ~call.entered) => call.iters = 0
      [] call.op = "exp" -> call.iters <= 5
      [] call.op = "sin_taylor" -> call.iters <= 8
      [] call.op = "cos_taylor" -> call.iters <= 7
      [] call.op = "sinh" -> call.iters <= MinExpo

\* C21: every loop of the kernel terminates for every input: the loop of
\* npwr after floor(log2|n|)+1 executions of its body, the Taylor loop of
\* exp after at most 5, that of sin_taylor after at most 8 and that of
\* cos_taylor after at most 7, and the loop of sinh, which has no cap,
\* because the term falls to or below the threshold, also when the
\* threshold is 0 or the argument is NaN.
C21_LoopsTerminate == ([]LoopBounds) /\ (InLoop ~> LoopDone)

\* sinh of an argument so small that its threshold is 0 has left its loop
\* after more than one execution: the term underflowed to zero.
C21_SinhZeroThreshold ==
  /\ LoopDone /\ call.op = "sinh" /\ call.th = ZeroMag
  /\ call.iters > 1 /\ call.t = ZeroMag

RECURSIVE SetBits(_)
\* the number of set bits of n >= 0
SetBits(n) == IF n = 0 THEN 0 ELSE (n % 2) + SetBits(n \div 2)

\* npwr has left its loop, or skipped it
NpwrDone == LoopDone /\ call.op = "npwr"

\* C23: npwr(a, n) with |n| >= 2 performs in its loop one multiplication
\* per set bit of |n| and one squaring per halving that leaves N > 0, at
\* most 2*floor(log2|n|) + 1 operations in all, and none for |n| = 1.
C23_NpwrLogarithmic ==
  NpwrDone =>
    /\ Abs(call.n) >= 2 =>
          call.mults <= 2 * FloorLog2(Abs(call.n)) + 1
    /\ call.entered =>
          LET N == qd_abs(build, call.n)
          IN  call.mults = SetBits(N) + FloorLog2(N)
    /\ Abs(call.n) = 1 => call.mults = 0

\* npwr(a, 7) is through its loop with the most operations an exponent of
\* three bits allows: three multiplications and two squarings.
C23_AllBitsSet ==
  /\ NpwrDone /\ call.n = 7
  /\ call.mults = 2 * FloorLog2(7) + 1

\* C22: every table access stays in bounds in every execution: a returned
\* call has read sin_table and cos_table only at an index |k|-1 in 0..3.
C22_TablesInBounds == (Initialized /\ Returned) => ~call.oob

\* sincos of +infinity has returned after reading sin_table and cos_table
\* at |k|-1 with |k| the most negative int, and both guards passed.
C22_SincosOutside ==
  /\ Initialized /\ Returned /\ call.op = "c_sincos" /\ call.a = Infdd
  /\ Reduced.abs_k = MinInt /\ (Reduced.abs_k - 1) \notin 0..3
  /\ call.oob /\ call.h = 0

\* the reads of inv_fact: exp at 0..5, adding at most 6 table terms,
\* sin_taylor at even indices up to 14, cos_taylor at odd ones up to 13
C22_SeriesInBounds ==
  (InLoop \/ LoopDone) =>
    CASE call.op = "exp" ->
           call.reads \subseteq 0..5 /\ call.adds <= 6
      [] call.op = "sin_taylor" ->
           call.reads \subseteq {i \in 0..(n_inv_fact - 1) : i % 2 = 0}
      [] call.op = "cos_taylor" ->
           call.reads \subseteq {i \in 1..(n_inv_fact - 2) : i % 2 = 1}
      [] OTHER -> TRUE

\* a classification macro has been evaluated on the double call.x
Classified == call.op \in {"QD_ISFINITE", "QD_ISINF", "QD_ISNAN"}

\* C25: in every build configuration, the one with HP_ANDROID defined
\* included, QD_ISNAN(x) is true exactly for NaN, QD_ISINF(x) exactly for
\* the two infinities and QD_ISFINITE(x) exactly for every other double,
\* and the NaN predicate built on them is true for the canonical NaN and
\* false for every finite value.
C25_MacrosMeanTheirNames ==
  /\ Classified =>
        call.r = CASE call.op = "QD_ISNAN" -> call.x.k = "nan"
                   [] call.op = "QD_ISINF" -> call.x.k = "inf"
                   [] call.op = "QD_ISFINITE" -> call.x.k \notin {"nan", "inf"}
  /\ (call.op = "isnan" /\ call.x = NaNdd) => call.r
  /\ (call.op = "isnan" /\ call.x.x0.k = "ex" /\ call.x.x1.k = "ex") =>
        ~call.r

\* with HP_ANDROID defined, QD_ISNAN of the finite double 1/2 is true
C25_AndroidFiniteIsNaN ==
  /\ build.HP_ANDROID /\ call.op = "QD_ISNAN"
  /\ call.x = R(1, 2) /\ call.r

\* without HP_ANDROID the macros are the three builtins
C25_DefaultBuild ==
  ~build.HP_ANDROID => C25_MacrosMeanTheirNames

\* a hyperbolic function has taken its branch
HypReturned == call.op \in {"sinh", "cosh", "tanh", "sincosh"}

\* the magnitude of an expansion of finite limbs, and of its leading limb
Magnitude(a) == QAbs(QAdd(a.x0.lo, a.x1.lo))
LeadMagnitude(a) == QAbs(a.x0.lo)
\* |a| <= 0.05 for a nonzero a, and |a| > 0.05
InSmallRange(a) ==
  Finite(a) /\ a # Zero /\ QLe(Magnitude(a), <<1, 20>>)
InLargeRange(a) ==
  IsInf(a.x0) \/ (Finite(a) /\ QLt(<<1, 20>>, Magnitude(a)))
\* the same two ranges by the leading limb alone
LeadSmall(a) == Finite(a) /\ QLe(LeadMagnitude(a), <<1, 20>>)
LeadLarge(a) ==
  IsInf(a.x0) \/ (Finite(a) /\ QLt(<<1, 20>>, LeadMagnitude(a)))

\* C24 as stated: for every nonzero a with |a| <= 0.05 sinh uses its
\* Taylor series and cosh, tanh and sincosh derive their values from it
\* through sqrt(1 + sinh(a)^2); for every a with |a| > 0.05 all four use
\* the closed forms on exp; sinh, tanh and sincosh put every argument in
\* the same one of the two ranges.
C24_SameThreshold ==
  HypReturned =>
    /\ InSmallRange(call.a) =>
          IF call.op = "sinh" THEN call.path = "taylor"
          ELSE call.path = "sinh" /\ call.inner = "taylor"
    /\ InLargeRange(call.a) => call.path = "exp"
    /\ SinhLarge(call.a) = TanhLarge(call.a)
    /\ TanhLarge(call.a) = ~SincoshSmall(call.a)

\* C24 (amended): sinh uses its Taylor series for every nonzero a that is
\* not above 0.05 in magnitude as a whole expansion (a NaN included) and
\* the closed form on exp above it; cosh uses the closed form on exp for
\* every nonzero a; tanh (for nonzero a) and sincosh decide by the leading
\* limb alone: tanh derives its value from sinh(a) and sqrt(1 + sinh(a)^2)
\* unless the leading limb is above 0.05 in magnitude, sincosh if it is at
\* most 0.05, and they use the closed forms on exp otherwise; the three
\* tests agree on every argument that is not NaN and whose leading limb is
\* not 0.05 in magnitude.
C24_PathsAsCoded ==
  HypReturned =>
    LET a == call.a
    IN  /\ call.op = "sinh" =>
              call.path = IF a = Zero THEN "zero"
                          ELSE IF InLargeRange(a) THEN "exp" ELSE "taylor"
        /\ call.op = "cosh" =>
              call.path = IF a = Zero THEN "zero" ELSE "exp"
        /\ call.op = "tanh" =>
              call.path = IF a = Zero THEN "zero"
                          ELSE IF LeadLarge(a) THEN "exp" ELSE "sinh"
        /\ call.op = "sincosh" =>
              call.path = IF LeadSmall(a) THEN "sinh" ELSE "exp"
        /\ call.path = "sinh" =>
              call.inner = IF a = Zero THEN "zero"
                           ELSE IF InLargeRange(a) THEN "exp" ELSE "taylor"
        /\ (~isnan(a) /\ ~(Finite(a) /\ LeadMagnitude(a) = <<1, 20>>)) =>
              /\ SinhLarge(a) = TanhLarge(a)
              /\ TanhLarge(a) = ~SincoshSmall(a)
              /\ SinhLarge(a) = InLargeRange(a)

\* tanh of an expansion just above 0.05, whose leading limb is 0.05, has
\* taken the branch through sinh, and sinh the closed form on exp.
C24_TanhAtThreshold ==
  /\ call.op = "tanh" /\ call.a = DD(R(1, 20), R(1, 800))
  /\ InLargeRange(call.a)
  /\ call.path = "sinh" /\ call.inner = "exp"
====
